---------------------------- MODULE Spec2Model ----------------------------
(***************************************************************************)
(* Model of the BSRN station-to-archive file reader of solardata:          *)
(* solardata/bsrn/parser.py (record-bound scanner, field extractor,        *)
(* per-record decoders) and the single-period branch of load_data in       *)
(* solardata/bsrn/core.py.                                                 *)
(*                                                                         *)
(* A text line is a sequence of one-character strings.  Index arithmetic   *)
(* follows Python: line numbers and list indices are 0-based in the        *)
(* program, so element n of a Python list is element n + 1 of the TLA+     *)
(* sequence that models it.                                                *)
(***************************************************************************)
EXTENDS Integers, Sequences, FiniteSets, TLC

VARIABLES
    txt_data,   \* the lines handed to the operation under analysis
    args,       \* the other arguments of the call
    pc,         \* position of the caller: "call" before, "return" after
    locals,     \* the local variables of load_data while it runs
    ret         \* what the operation returned or raised

vars == <<txt_data, args, pc, locals, ret>>

\* value of ret, and of an argument that is not used, before the call
NoResult == [raised |-> "not called"]

\* Python's None, and a value that is not None: an optional value is a
\* sequence of length at most one
None == <<>>

Some(x) == <<x>>

(***************************************************************************)
(* Bounds of the analysis.                                                 *)
(***************************************************************************)
MaxScanLines == 4

(***************************************************************************)
(* Text helpers (str.strip, str.split, slices).                            *)
(***************************************************************************)
SeqsUpTo(S, n) == UNION {[1..k -> S] : k \in 0..n}

Digits == {"0", "1", "2", "3", "4", "5", "6", "7", "8", "9"}

IsSpace(c) == c = " "

RECURSIVE LStrip(_)
LStrip(s) ==
    IF s # <<>> /\ IsSpace(Head(s)) THEN LStrip(Tail(s)) ELSE s

RECURSIVE RStrip(_)
RStrip(s) ==
    IF s # <<>> /\ IsSpace(s[Len(s)]) THEN RStrip(SubSeq(s, 1, Len(s) - 1)) ELSE s

Strip(s) == RStrip(LStrip(s))

\* s[a:] of Python for 0 <= a
From(s, a) == SubSeq(s, a + 1, Len(s))

\* s[a:b] of Python for 0 <= a, 0 <= b: the bounds are clipped to the length
Slice(s, a, b) == SubSeq(s, a + 1, IF b < Len(s) THEN b ELSE Len(s))

(***************************************************************************)
(* find_logical_record_bounds                                              *)
(***************************************************************************)
\* re.compile(r'^\s*\*[CU]\d\d\d\d\s*$').match(line)
IsMarker(line) ==
    LET t == Strip(line)
    IN  /\ Len(t) = 6
        /\ t[1] = "*"
        /\ t[2] \in {"C", "U"}
        /\ \A i \in 3..6 : t[i] \in Digits

\* first loop: the (stamp, n) pairs of the marker lines, in file order
RECURSIVE ScanMarkers(_, _)
ScanMarkers(lines, n) ==
    IF n >= Len(lines) THEN <<>>
    ELSE IF IsMarker(lines[n + 1])
         THEN <<[stamp |-> Strip(lines[n + 1]), n |-> n]>> \o ScanMarkers(lines, n + 1)
         ELSE ScanMarkers(lines, n + 1)

RecordId(stamp) == From(stamp, 2)

Entry(lr) ==
    [header |-> lr.stamp, has_changed |-> (lr.stamp[2] = "C"), first_line |-> lr.n]

\* a faulty variant: a later marker of the same id overwrites the entry
KeepLatest(limits, lr) ==
    (RecordId(lr.stamp) :> Entry(lr)) @@ limits

\* body of the second loop: an id already present is left alone
KeepFirst(limits, lr) ==
    IF RecordId(lr.stamp) \in DOMAIN limits
    THEN limits
    ELSE limits @@ (RecordId(lr.stamp) :> Entry(lr))

RECURSIVE Limits(_, _)
Limits(list, limits) ==
    IF list = <<>> THEN limits
    ELSE Limits(Tail(list), KeepFirst(limits, Head(list)))

\* a faulty variant: the search stops at the last marker of the id
LastOccurrence(list, id) ==
    CHOOSE k \in 0..(Len(list) - 1) :
        /\ RecordId(list[k + 1].stamp) = id
        /\ \A j \in (k + 1)..(Len(list) - 1) : RecordId(list[j + 1].stamp) # id

\* the while loop of the third loop: the first k whose id is the one sought
FirstOccurrence(list, id) ==
    CHOOSE k \in 0..(Len(list) - 1) :
        /\ RecordId(list[k + 1].stamp) = id
        /\ \A j \in 0..(k - 1) : RecordId(list[j + 1].stamp) # id

\* a faulty variant: the span runs up to the next marker line itself
ClosingLineInclusive(list, k, nlines) ==
    IF k < Len(list) - 1 THEN list[k + 2].n ELSE nlines

\* last_line of the marker at position k of the list
ClosingLine(list, k, nlines) ==
    IF k < Len(list) - 1 THEN list[k + 2].n - 1 ELSE nlines

find_logical_record_bounds(lines) ==
    LET logical_records_list == ScanMarkers(lines, 0)
        logical_records_limits == Limits(logical_records_list, <<>>)
    IN  [id \in DOMAIN logical_records_limits |->
            [header |-> logical_records_limits[id].header,
             has_changed |-> logical_records_limits[id].has_changed,
             first_line |-> logical_records_limits[id].first_line,
             last_line |-> ClosingLine(logical_records_list,
                               FirstOccurrence(logical_records_list, id),
                               Len(lines))]]

(***************************************************************************)
(* Specification of the scanner: any file of at most MaxScanLines lines    *)
(* drawn from ScanLines, handed to find_logical_record_bounds.             *)
(***************************************************************************)
ScanLines ==
    { <<"*", "C", "0", "0", "0", "1">>,
      <<"*", "U", "0", "0", "0", "1">>,
      <<" ", "*", "C", "0", "1", "0", "0", " ">>,
      <<"*", "U", "0", "1", "0", "0">>,
      <<"*", "U", "0", "0", "0", "8">>,
      <<"*", "X", "0", "1", "0", "0">>,
      <<"1", " ", "2">> }

InitScan ==
    /\ txt_data \in SeqsUpTo(ScanLines, MaxScanLines)
    /\ args = NoResult
    /\ pc = "call"
    /\ locals = NoResult
    /\ ret = NoResult

CallScanner ==
    /\ pc = "call"
    /\ ret' = find_logical_record_bounds(txt_data)
    /\ pc' = "return"
    /\ UNCHANGED <<txt_data, args, locals>>

SpecScan == InitScan /\ [][CallScanner]_vars


(***************************************************************************)
(* Vocabulary of the scanner's properties, read off the input file alone.  *)
(***************************************************************************)
MarkerLines == {n \in 0..(Len(txt_data) - 1) : IsMarker(txt_data[n + 1])}

StampAt(n) == Strip(txt_data[n + 1])

IdAt(n) == From(StampAt(n), 2)

FirstMarkerOf(id) ==
    CHOOSE n \in MarkerLines :
        IdAt(n) = id /\ \A m \in MarkerLines : IdAt(m) = id => n <= m

IsFirstOfItsId(n) == n = FirstMarkerOf(IdAt(n))

LastMarker == CHOOSE n \in MarkerLines : \A m \in MarkerLines : m <= n

FirstMarker == CHOOSE n \in MarkerLines : \A m \in MarkerLines : n <= m

NextMarkerAfter(n) ==
    CHOOSE m \in MarkerLines : m > n /\ \A j \in MarkerLines : j > n => m <= j

\* the marker that opens the segment line i lies in
OpenerOf(i) ==
    CHOOSE m \in MarkerLines : m <= i /\ \A j \in MarkerLines : j <= i => j <= m

SpanOf(id) == ret[id].first_line..ret[id].last_line

Scanned == pc = "return"

\* C1: one entry per record id, and the entry's header, has_changed flag
\* (true exactly for the flag letter C) and first_line are those of the first
\* marker of that id in file order, whatever markers of the id follow.
C1_FirstOccurrenceWins ==
    Scanned =>
        /\ DOMAIN ret = {IdAt(n) : n \in MarkerLines}
        /\ \A id \in DOMAIN ret :
            LET f == FirstMarkerOf(id)
            IN  /\ ret[id].header = StampAt(f)
                /\ ret[id].has_changed = (StampAt(f)[2] = "C")
                /\ ret[id].first_line = f

\* an id whose marker is repeated with the other flag letter
C1_Witness ==
    /\ Scanned
    /\ \E n, m \in MarkerLines :
        /\ n < m
        /\ IdAt(n) = IdAt(m)
        /\ StampAt(n)[2] # StampAt(m)[2]

\* C2: when the first marker of a retained id is not the last marker of the
\* file, last_line is the line index of the marker that follows it in the
\* file (repeated markers count) minus one.
C2_ClosesBeforeNextMarker ==
    Scanned =>
        \A id \in DOMAIN ret :
            FirstMarkerOf(id) # LastMarker =>
                ret[id].last_line = NextMarkerAfter(FirstMarkerOf(id)) - 1

\* the marker that closes a span is a repeated one, not a retained one
C2_Witness ==
    /\ Scanned
    /\ \E id \in DOMAIN ret :
        /\ FirstMarkerOf(id) # LastMarker
        /\ ~IsFirstOfItsId(NextMarkerAfter(FirstMarkerOf(id)))
        /\ Cardinality(DOMAIN ret) >= 2

\* C3 as claimed: the record opened by the last marker of the file ends at
\* the index of the final line, number of lines minus one.
C3_LastRecordEndsAtFinalLine ==
    Scanned =>
        \A id \in DOMAIN ret :
            FirstMarkerOf(id) = LastMarker =>
                ret[id].last_line = Len(txt_data) - 1

\* C4 as claimed: the spans are pairwise disjoint and the lines they hold are
\* exactly the lines from the first marker to the last line of the file (a
\* span is read as the set of lines of the file it names).
C4_SpansPartitionTheFile ==
    Scanned =>
        /\ \A a, b \in DOMAIN ret : a # b => SpanOf(a) \cap SpanOf(b) = {}
        /\ UNION {SpanOf(id) \cap 0..(Len(txt_data) - 1) : id \in DOMAIN ret} =
               IF MarkerLines = {} THEN {} ELSE FirstMarker..(Len(txt_data) - 1)

\* C4 amended: the spans are pairwise disjoint; a line from the first marker
\* to the end of the file lies in a span exactly when the marker that opens
\* its segment is the first marker of its id (the lines that follow a repeated
\* marker lie in no span); and the span of the last marker, when that marker
\* is retained, also holds the index one past the last line.
C4_SpansDisjointAndCoverFirstSegments ==
    Scanned =>
        /\ \A a, b \in DOMAIN ret : a # b => SpanOf(a) \cap SpanOf(b) = {}
        /\ UNION {SpanOf(id) : id \in DOMAIN ret} =
               IF MarkerLines = {} THEN {}
               ELSE {i \in FirstMarker..(Len(txt_data) - 1) : IsFirstOfItsId(OpenerOf(i))}
                    \cup (IF IsFirstOfItsId(LastMarker) THEN {Len(txt_data)} ELSE {})

\* several retained ids and a repeated marker whose segment belongs to no span
C4_Witness ==
    /\ Scanned
    /\ Cardinality(DOMAIN ret) >= 2
    /\ \E i \in 0..(Len(txt_data) - 1) :
        /\ i >= FirstMarker
        /\ ~IsFirstOfItsId(OpenerOf(i))
        /\ ~IsMarker(txt_data[i + 1])
        /\ \A id \in DOMAIN ret : i \notin SpanOf(id)


(***************************************************************************)
(* parse: the field extractor.  A pattern is the sequence of the elements  *)
(* of the regular expression: Lit(c) a literal character, Grp(n) the group *)
(* of n arbitrary characters, Rest the greedy group of any characters,     *)
(* which every pattern of parser.py has, if at all, as its last element.   *)
(* The argument logical_record_id of parse                                 *)
(* is never read by it and is left out.                                    *)
(***************************************************************************)
MaxTxtLen == 7

Lit(c) == [kind |-> "lit", c |-> c]

Grp(n) == [kind |-> "grp", n |-> n]

Rest == [kind |-> "rest"]

Sp == Lit(" ")

NoMatch == [ok |-> FALSE, groups |-> <<>>]

RECURSIVE MatchFrom(_, _, _, _)
MatchFrom(txt, pos, pattern, groups) ==
    IF pattern = <<>> THEN [ok |-> TRUE, groups |-> groups, end |-> pos]
    ELSE LET e == Head(pattern)
         IN  CASE e.kind = "lit" ->
                    IF pos < Len(txt) /\ txt[pos + 1] = e.c
                    THEN MatchFrom(txt, pos + 1, Tail(pattern), groups)
                    ELSE NoMatch
               [] e.kind = "grp" ->
                    IF pos + e.n <= Len(txt)
                    THEN MatchFrom(txt, pos + e.n, Tail(pattern),
                                   Append(groups, SubSeq(txt, pos + 1, pos + e.n)))
                    ELSE NoMatch
               [] e.kind = "rest" ->
                    MatchFrom(txt, Len(txt), Tail(pattern),
                              Append(groups, SubSeq(txt, pos + 1, Len(txt))))

\* a faulty variant: re.fullmatch, the pattern must use up the whole line
regex_fullmatch(txt, pattern) ==
    LET m == MatchFrom(txt, 0, pattern, <<>>)
    IN  IF m.ok /\ m.end = Len(txt) THEN m ELSE NoMatch

\* regex.match(txt): anchored at the start of the line only
regex_match(txt, pattern) == MatchFrom(txt, 0, pattern, <<>>)

\* int(s) accepts optional blanks around an optional sign and digits
IsIntLiteral(s) ==
    LET t == Strip(s)
        body == IF t # <<>> /\ t[1] \in {"+", "-"} THEN Tail(t) ELSE t
    IN  body # <<>> /\ \A i \in 1..Len(body) : body[i] \in Digits

DigitValue(c) ==
    CASE c = "0" -> 0 [] c = "1" -> 1 [] c = "2" -> 2 [] c = "3" -> 3 [] c = "4" -> 4
      [] c = "5" -> 5 [] c = "6" -> 6 [] c = "7" -> 7 [] c = "8" -> 8 [] c = "9" -> 9

RECURSIVE DigitsValue(_)
DigitsValue(ds) ==
    IF ds = <<>> THEN 0
    ELSE 10 * DigitsValue(SubSeq(ds, 1, Len(ds) - 1)) + DigitValue(ds[Len(ds)])

int(s) ==
    LET t == Strip(s)
    IN  IF t[1] = "-" THEN 0 - DigitsValue(Tail(t))
        ELSE IF t[1] = "+" THEN DigitsValue(Tail(t))
        ELSE DigitsValue(t)

\* Translate(missing)(value)
Translate(missing, value) == IF value = missing THEN None ELSE Some(value)

\* the text of the line in the error message
ShownLine(txt) ==
    IF txt = <<>>
    THEN <<"<", "e", "m", "p", "t", "y", " ", "l", "i", "n", "e", ">">>
    ELSE txt

\* formatter is "none" or "int"; missing is None or Some(sentinel).  The
\* fields come back as strings without a formatter, as integers with int,
\* and as optional values when a sentinel is given.
parse(txt, pattern, formatter, missing) ==
    LET m == regex_match(txt, pattern)
        groups == [i \in 1..Len(m.groups) |-> Strip(m.groups[i])]
    IN  IF ~m.ok
        THEN [raised |-> "BSRNParsingError", pattern |-> pattern, line |-> ShownLine(txt)]
        ELSE IF formatter = "int" /\ \E i \in 1..Len(groups) : ~IsIntLiteral(groups[i])
        THEN [raised |-> "ValueError"]
        ELSE LET formatted == [i \in 1..Len(groups) |->
                                 IF formatter = "int" THEN int(groups[i]) ELSE groups[i]]
             IN  [raised |-> "none",
                  value |-> IF missing = None THEN formatted
                            ELSE [i \in 1..Len(formatted) |->
                                     Translate(missing[1], formatted[i])]]

(***************************************************************************)
(* Specification of the field extractor: every line of at most MaxTxtLen   *)
(* characters against the two-field pattern of the surface and topography *)
(* line (parse_logical_record_0004), and lines around the 16 characters    *)
(* the tcp/ip and e-mail pattern asks for, with the formatter and sentinel *)
(* combinations the decoders use.                                          *)
(***************************************************************************)
ParseChars == {" ", "1", "-", "x"}

PatternTwoFields == <<Sp, Grp(2), Sp, Grp(2)>>

PatternFieldAndRest == <<Grp(15), Sp, Rest>>

Repeat(c, n) == [i \in 1..n |-> c]

WideTexts ==
    {Repeat(c, k) \o tail : c \in {"x", " "}, k \in {14, 15, 16},
                            tail \in SeqsUpTo({" ", "x"}, 2)}

ParseCalls ==
    {[txt |-> t, pattern |-> PatternTwoFields, formatter |-> f[1], missing |-> f[2]] :
        t \in SeqsUpTo(ParseChars, MaxTxtLen),
        f \in {<<"none", None>>, <<"int", None>>, <<"int", Some(-1)>>}}
    \cup
    {[txt |-> t, pattern |-> PatternFieldAndRest, formatter |-> "none", missing |-> None] :
        t \in WideTexts}

InitParse ==
    /\ txt_data = <<>>
    /\ args \in ParseCalls
    /\ pc = "call"
    /\ locals = NoResult
    /\ ret = NoResult

CallParse ==
    /\ pc = "call"
    /\ ret' = parse(args.txt, args.pattern, args.formatter, args.missing)
    /\ pc' = "return"
    /\ UNCHANGED <<txt_data, args, locals>>

SpecParse == InitParse /\ [][CallParse]_vars

(***************************************************************************)
(* Vocabulary of the extractor's properties, read off the pattern and the  *)
(* line alone.                                                             *)
(***************************************************************************)
ElementWidth(e) ==
    CASE e.kind = "lit" -> 1 [] e.kind = "grp" -> e.n [] e.kind = "rest" -> 0

RECURSIVE WidthOf(_)
WidthOf(pattern) ==
    IF pattern = <<>> THEN 0 ELSE ElementWidth(Head(pattern)) + WidthOf(Tail(pattern))

EndsWithRest(pattern) == pattern # <<>> /\ pattern[Len(pattern)].kind = "rest"

\* 0-based offset in the line of element i of the pattern
OffsetOf(pattern, i) == WidthOf(SubSeq(pattern, 1, i - 1))

SeparatorsInPlace(txt, pattern) ==
    \A i \in 1..Len(pattern) :
        pattern[i].kind = "lit" =>
            /\ OffsetOf(pattern, i) < Len(txt)
            /\ txt[OffsetOf(pattern, i) + 1] = pattern[i].c

\* the text of field number g (the g-th group), blanks trimmed
GroupIndex(pattern, g) ==
    CHOOSE i \in 1..Len(pattern) :
        /\ pattern[i].kind # "lit"
        /\ Cardinality({j \in 1..i : pattern[j].kind # "lit"}) = g

FieldText(txt, pattern, g) ==
    LET i == GroupIndex(pattern, g)
    IN  Strip(SubSeq(txt, OffsetOf(pattern, i) + 1,
                     IF pattern[i].kind = "rest" THEN Len(txt)
                     ELSE OffsetOf(pattern, i) + pattern[i].n))

GroupCount(pattern) == Cardinality({j \in 1..Len(pattern) : pattern[j].kind # "lit"})

\* the pattern matches a prefix of the line
PrefixFits(txt, pattern) ==
    Len(txt) >= WidthOf(pattern) /\ SeparatorsInPlace(txt, pattern)

Coercible(txt, pattern, formatter) ==
    formatter = "int" =>
        \A g \in 1..GroupCount(pattern) : IsIntLiteral(FieldText(txt, pattern, g))

\* the line has the pattern's layout exactly and every field can be coerced
FitsExactly(txt, pattern, formatter) ==
    /\ PrefixFits(txt, pattern)
    /\ EndsWithRest(pattern) \/ Len(txt) = WidthOf(pattern)
    /\ Coercible(txt, pattern, formatter)

CarriesPatternAndLine ==
    /\ ret.raised = "BSRNParsingError"
    /\ ret.pattern = args.pattern
    /\ ret.line = ShownLine(args.txt)

ExpectedField(g) ==
    LET text == FieldText(args.txt, args.pattern, g)
        value == IF args.formatter = "int" THEN int(text) ELSE text
    IN  IF args.missing = None THEN value
        ELSE IF value = args.missing[1] THEN None ELSE Some(value)

\* C5 as claimed: a line that does not fit the layout exactly (too short,
\* characters after the last field, a separator out of place, a field that
\* cannot be coerced) raises a parsing error carrying the pattern and the line.
C5_MisfitRaisesParsingError ==
    pc = "return" =>
        (~FitsExactly(args.txt, args.pattern, args.formatter) => CarriesPatternAndLine)

\* C5 amended: parse raises a parsing error carrying the pattern and the line
\* exactly when the pattern does not match a prefix of the line (the line is
\* too short or a separator is out of place); otherwise a field that int
\* rejects raises ValueError, and in every other case the fields are returned,
\* characters after the last field being ignored.
C5_PrefixMisfitRaisesParsingError ==
    pc = "return" =>
        /\ ~PrefixFits(args.txt, args.pattern) => CarriesPatternAndLine
        /\ PrefixFits(args.txt, args.pattern) =>
            IF Coercible(args.txt, args.pattern, args.formatter)
            THEN /\ ret.raised = "none"
                 /\ Len(ret.value) = GroupCount(args.pattern)
                 /\ \A g \in 1..GroupCount(args.pattern) : ret.value[g] = ExpectedField(g)
            ELSE ret.raised = "ValueError"

\* fields are returned from a line with a character after the last field
C5_Witness ==
    /\ pc = "return"
    /\ ~EndsWithRest(args.pattern)
    /\ Len(args.txt) > WidthOf(args.pattern)
    /\ args.formatter = "int"
    /\ args.missing # None
    /\ ret.raised = "none"
    /\ ret.value[1] = None


(***************************************************************************)
(* The numeric data records 0100, 0300 and 1100.  A float is held in       *)
(* tenths (the file's values have at most one decimal), as an optional     *)
(* value: Some(v) for v / 10, nan for not-a-number.                        *)
(***************************************************************************)
nan == <<>>

\* str.split(): the maximal runs of characters other than blanks
RECURSIVE Split(_)
Split(s) ==
    LET t == LStrip(s)
        n == IF \E i \in 1..Len(t) : IsSpace(t[i])
             THEN (CHOOSE i \in 1..Len(t) :
                       IsSpace(t[i]) /\ \A j \in 1..(i - 1) : ~IsSpace(t[j])) - 1
             ELSE Len(t)
    IN  IF t = <<>> THEN <<>>
        ELSE <<SubSeq(t, 1, n)>> \o Split(SubSeq(t, n + 1, Len(t)))

\* float(x) accepts, of the characters of the files, an optional sign, digits
\* and at most one point, with a digit on at least one side of it
IsFloatLiteral(x) ==
    LET body == IF x # <<>> /\ x[1] \in {"+", "-"} THEN Tail(x) ELSE x
        points == {i \in 1..Len(body) : body[i] = "."}
    IN  /\ Cardinality(points) <= 1
        /\ \A i \in 1..Len(body) : body[i] \in Digits \cup {"."}
        /\ \E i \in 1..Len(body) : body[i] \in Digits

\* the value of a float literal, in tenths
FloatValue(x) ==
    LET neg == x[1] = "-"
        body == IF x[1] \in {"+", "-"} THEN Tail(x) ELSE x
        dot == IF \E i \in 1..Len(body) : body[i] = "."
               THEN CHOOSE i \in 1..Len(body) : body[i] = "."
               ELSE Len(body) + 1
        whole == DigitsValue(SubSeq(body, 1, dot - 1))
        tenth == IF dot + 1 <= Len(body) THEN DigitValue(body[dot + 1]) ELSE 0
        mag == 10 * whole + tenth
    IN  IF neg THEN 0 - mag ELSE mag

\* a faulty variant: a token that is not a number reads as zero
parse_float_zero(x) == IF IsFloatLiteral(x) THEN Some(FloatValue(x)) ELSE Some(0)

parse_float(x) == IF IsFloatLiteral(x) THEN Some(FloatValue(x)) ELSE nan

\* [parse_float(e) for e in line.split()]
LineValues(line) ==
    LET tokens == Split(line)
    IN  [i \in 1..Len(tokens) |-> parse_float(tokens[i])]

\* ndarray.astype(int) of one element: truncation toward zero; the cast of
\* not-a-number is undefined and yields what the build yields, nan_as_int
AsInt(x, nan_as_int) ==
    IF x = nan THEN nan_as_int
    ELSE IF x[1] >= 0 THEN x[1] \div 10 ELSE 0 - ((0 - x[1]) \div 10)

\* column j of np.stack(rows).T
Column(rows, j) == [i \in 1..Len(rows) |-> rows[i][j]]

IntColumn(rows, j, nan_as_int) ==
    [i \in 1..Len(rows) |-> AsInt(rows[i][j], nan_as_int)]

\* array[array == sentinel] = np.nan, the sentinel in tenths
Mask(array, sentinel) ==
    [i \in 1..Len(array) |-> IF array[i] = Some(sentinel) THEN nan ELSE array[i]]

\* hour, minute = np.divmod(contents['minute'], 60)
HourOf(minutes) == [i \in 1..Len(minutes) |-> minutes[i] \div 60]

MinuteOf(minutes) == [i \in 1..Len(minutes) |-> minutes[i] % 60]

IndexOf(names, name) == CHOOSE j \in 1..Len(names) : names[j] = name

Names0100a ==
    <<"day", "minute", "global_horizontal", "global_horizontal_std",
      "global_horizontal_min", "global_horizontal_max", "direct_normal",
      "direct_normal_std", "direct_normal_min", "direct_normal_max">>

Names0100b ==
    <<"diffuse_horizontal", "diffuse_horizontal_std", "diffuse_horizontal_min",
      "diffuse_horizontal_max", "downward_longwave", "downward_longwave_std",
      "downward_longwave_min", "downward_longwave_max", "air_temperature",
      "relative_humidity", "atmospheric_pressure">>

\* a faulty variant: -999 is tested in the radiation channels only
Missing999InRadiation ==
    {"global_horizontal", "global_horizontal_min", "global_horizontal_max",
     "direct_normal", "direct_normal_min", "direct_normal_max",
     "diffuse_horizontal", "diffuse_horizontal_min", "diffuse_horizontal_max",
     "downward_longwave", "downward_longwave_min", "downward_longwave_max"}

Missing999In0100 ==
    {"global_horizontal", "global_horizontal_min", "global_horizontal_max",
     "direct_normal", "direct_normal_min", "direct_normal_max",
     "diffuse_horizontal", "diffuse_horizontal_min", "diffuse_horizontal_max",
     "downward_longwave", "downward_longwave_min", "downward_longwave_max",
     "atmospheric_pressure"}

Missing99p9In0100 ==
    {"global_horizontal_std", "direct_normal_std", "diffuse_horizontal_std",
     "downward_longwave_std", "air_temperature", "relative_humidity"}

Range(f) == {f[i] : i \in DOMAIN f}

\* the while loop of parse_logical_record_0100: the rows kept from the first
\* line and from the second line of each pair, or the error that leaves it.
\* nline is the cursor at the top of the loop; a line that raises ValueError
\* is logged and the loop goes on from it; reading the second line past the
\* end of the list raises IndexError, which the loop does not catch.
RECURSIVE Loop0100(_, _, _, _)
Loop0100(lines, nline, line_data_1, line_data_2) ==
    IF ~(nline < Len(lines) - 1)
    THEN [raised |-> "none", line_data_1 |-> line_data_1, line_data_2 |-> line_data_2]
    ELSE LET line_values_1 == LineValues(lines[nline + 2])
         IN  IF Len(line_values_1) # 10
             THEN Loop0100(lines, nline + 1, line_data_1, line_data_2)
             ELSE IF nline + 2 > Len(lines) - 1
             THEN [raised |-> "IndexError"]
             ELSE LET line_values_2 == LineValues(lines[nline + 3])
                  IN  IF Len(line_values_2) # 11
                      THEN Loop0100(lines, nline + 2, line_data_1, line_data_2)
                      ELSE Loop0100(lines, nline + 2,
                                    Append(line_data_1, line_values_1),
                                    Append(line_data_2, line_values_2))

parse_logical_record_0100(lines, nan_as_int) ==
    LET loop == Loop0100(lines, 0, <<>>, <<>>)
    IN  IF loop.raised # "none" THEN [raised |-> loop.raised]
        ELSE IF loop.line_data_1 = <<>> THEN [raised |-> "ValueError"]
        ELSE
        LET rows1 == loop.line_data_1
            rows2 == loop.line_data_2
            minutes == IntColumn(rows1, 2, nan_as_int)
            Raw(name) ==
                IF name \in Range(Names0100a)
                THEN Column(rows1, IndexOf(Names0100a, name))
                ELSE Column(rows2, IndexOf(Names0100b, name))
            floats == (Range(Names0100a) \cup Range(Names0100b)) \ {"day", "minute"}
        IN  [raised |-> "none",
             contents |->
                [name \in floats |->
                    IF name \in Missing999In0100 THEN Mask(Raw(name), -9990)
                    ELSE IF name \in Missing99p9In0100 THEN Mask(Raw(name), -999)
                    ELSE Raw(name)]
                @@ [name \in {"day", "hour", "minute"} |->
                    CASE name = "day" -> IntColumn(rows1, 1, nan_as_int)
                      [] name = "hour" -> HourOf(minutes)
                      [] name = "minute" -> MinuteOf(minutes)]]


\* the while loop of parse_logical_record_0300 and _1100: the rows of the
\* lines that hold ntokens tokens
RECURSIVE LoopSingle(_, _, _, _)
LoopSingle(lines, nline, ntokens, line_data) ==
    IF ~(nline < Len(lines) - 1) THEN line_data
    ELSE LET line_values == LineValues(lines[nline + 2])
         IN  LoopSingle(lines, nline + 1, ntokens,
                        IF Len(line_values) # ntokens THEN line_data
                        ELSE Append(line_data, line_values))

Names0300 ==
    <<"day", "minute", "reflected", "reflected_std", "reflected_min",
      "reflected_max", "upward_longwave", "upward_longwave_std",
      "upward_longwave_min", "upward_longwave_max", "net_radiation",
      "net_radiation_std", "net_radiation_min", "net_radiation_max">>

Missing99p9In0300 == {"reflected_std", "upward_longwave_std", "net_radiation_std"}

parse_logical_record_0300(lines, nan_as_int) ==
    LET rows == LoopSingle(lines, 0, 14, <<>>)
        minutes == IntColumn(rows, 2, nan_as_int)
        floats == Range(Names0300) \ {"day", "minute"}
    IN  IF rows = <<>> THEN [raised |-> "ValueError"]
        ELSE [raised |-> "none",
              contents |->
                [name \in floats |->
                    LET masked == Mask(Column(rows, IndexOf(Names0300, name)), -9990)
                    IN  IF name \in Missing99p9In0300 THEN Mask(masked, -999)
                        ELSE masked]
                @@ [name \in {"day", "hour", "minute"} |->
                    CASE name = "day" -> IntColumn(rows, 1, nan_as_int)
                      [] name = "hour" -> HourOf(minutes)
                      [] name = "minute" -> MinuteOf(minutes)]]

Names1100 ==
    <<"day", "minute", "level", "pressure_hPa", "height_m",
      "air_temperature_degC", "dew_point_degC", "wind_direction_azimuth",
      "wind_speed_ms", "ozone_concentration">>

\* a faulty variant: one sentinel for every variable of record 1100
MissingGlobally(name) == -9990

\* the sentinel of each variable of record 1100, in tenths
Missing1100(name) ==
    CASE name \in {"pressure_hPa", "height_m"} -> -9990
      [] name \in {"wind_direction_azimuth", "wind_speed_ms"} -> -990
      [] name = "air_temperature_degC" -> -999
      [] name = "dew_point_degC" -> -9999
      [] name = "ozone_concentration" -> -99

parse_logical_record_1100(lines, nan_as_int) ==
    LET rows == LoopSingle(lines, 0, 10, <<>>)
        minutes == IntColumn(rows, 2, nan_as_int)
        floats == Range(Names1100) \ {"day", "minute", "level"}
    IN  IF rows = <<>> THEN [raised |-> "ValueError"]
        ELSE [raised |-> "none",
              contents |->
                [name \in floats |->
                    Mask(Column(rows, IndexOf(Names1100, name)), Missing1100(name))]
                @@ [name \in {"day", "hour", "minute", "level"} |->
                    CASE name = "day" -> IntColumn(rows, 1, nan_as_int)
                      [] name = "hour" -> HourOf(minutes)
                      [] name = "minute" -> MinuteOf(minutes)
                      [] name = "level" -> IntColumn(rows, 3, nan_as_int)]]

LR0100 == <<"0", "1", "0", "0">>

LR0300 == <<"0", "3", "0", "0">>

LR1100 == <<"1", "1", "0", "0">>

DataParserIds == {LR0100, LR0300, LR1100}

data_parsers(lrid, lines, nan_as_int) ==
    CASE lrid = LR0100 -> parse_logical_record_0100(lines, nan_as_int)
      [] lrid = LR0300 -> parse_logical_record_0300(lines, nan_as_int)
      [] lrid = LR1100 -> parse_logical_record_1100(lines, nan_as_int)


(***************************************************************************)
(* Specification of the data decoders: a record of at most MaxSamples      *)
(* samples, each written in one of the ways of SampleForms, handed to the  *)
(* decoder of its record id.  The line at position p of the span (the      *)
(* marker being position 0) holds day 1, then p in every other token, so   *)
(* that a decoded row tells which lines it was read from.                  *)
(***************************************************************************)
MaxSamples == 3

\* what ndarray.astype(int) makes of not-a-number: the least 64-bit integer
\* on x86-64 (NanAsIntMin stands for it and for any integer below the range
\* of a C int), zero on AArch64
NanAsIntMin == -2000000000

NanAsIntZero == 0

NanCastOutcomes == {NanAsIntMin, NanAsIntZero}

\* the decimal digits of a natural number
RECURSIVE Str(_)
Str(n) ==
    LET d == <<"0", "1", "2", "3", "4", "5", "6", "7", "8", "9">>[(n % 10) + 1]
    IN  IF n < 10 THEN <<d>> ELSE Append(Str(n \div 10), d)

RECURSIVE Join(_)
Join(tokens) ==
    IF tokens = <<>> THEN <<>> ELSE <<" ">> \o Head(tokens) \o Join(Tail(tokens))

\* a line of n tokens at position p; token x, if any, is not a number; with
\* x = -1 the second token, the minute of the day, is 1440 and with x = -2
\* it is 1 at every position
Line(n, x, p) ==
    Join([i \in 1..n |-> IF i = x THEN <<"x">>
                         ELSE IF i = 1 THEN <<"1">>
                         ELSE IF i = 2 /\ x = 0 - 1 THEN Str(1440)
                         ELSE IF i = 2 /\ x = 0 - 2 THEN <<"1">>
                         ELSE Str(p)])

Tokens(n, x) == [n |-> n, x |-> x]

SampleForms ==
    [good |-> <<Tokens(10, 0), Tokens(11, 0)>>,
     short1 |-> <<Tokens(9, 0), Tokens(11, 0)>>,
     long1 |-> <<Tokens(11, 0), Tokens(11, 0)>>,
     short2 |-> <<Tokens(10, 0), Tokens(10, 0)>>,
     long2 |-> <<Tokens(10, 0), Tokens(12, 0)>>,
     swapped |-> <<Tokens(11, 0), Tokens(10, 0)>>,
     lone |-> <<Tokens(10, 0)>>,
     xvalue |-> <<Tokens(10, 3), Tokens(11, 0)>>,
     xminute |-> <<Tokens(10, 2), Tokens(11, 0)>>,
     xsecond |-> <<Tokens(10, 0), Tokens(11, 4)>>,
     single |-> <<Tokens(14, 0)>>,
     short |-> <<Tokens(9, 0)>>,
     xvalue1 |-> <<Tokens(14, 3)>>,
     xminute1 |-> <<Tokens(14, 2)>>,
     sonde |-> <<Tokens(10, 0)>>,
     xvalue2 |-> <<Tokens(10, 4)>>,
     xlevel |-> <<Tokens(10, 3)>>,
     message |-> <<Tokens(3, 0)>>,
     late |-> <<Tokens(10, 0 - 1), Tokens(11, 0)>>,
     late1 |-> <<Tokens(14, 0 - 1)>>,
     late2 |-> <<Tokens(10, 0 - 1)>>,
     again |-> <<Tokens(10, 0 - 2), Tokens(11, 0)>>]

FormsOf(lrid) ==
    CASE lrid = LR0100 -> {"good", "short1", "long1", "short2", "long2", "swapped",
                           "lone", "xvalue", "xminute", "xsecond"}
      [] lrid = LR0300 -> {"single", "short", "xvalue1", "xminute1"}
      [] lrid = LR1100 -> {"sonde", "short", "xvalue2", "xlevel"}

RECURSIVE Flatten(_)
Flatten(seqs) == IF seqs = <<>> THEN <<>> ELSE Head(seqs) \o Flatten(Tail(seqs))

\* the lines of the samples, the first of them at position p
SampleLines(samples, p) ==
    LET kinds == Flatten([i \in 1..Len(samples) |-> SampleForms[samples[i]]])
    IN  [i \in 1..Len(kinds) |-> Line(kinds[i].n, kinds[i].x, p + i - 1)]

MarkerLine(flag, lrid) == <<"*", flag>> \o lrid

RecordLines(lrid, samples) == <<MarkerLine("C", lrid)>> \o SampleLines(samples, 1)

InitData ==
    /\ args \in UNION {{[lrid |-> id, samples |-> ss, nan_as_int |-> c] :
                            ss \in SeqsUpTo(FormsOf(id), MaxSamples),
                            c \in NanCastOutcomes} : id \in DataParserIds}
    /\ txt_data = RecordLines(args.lrid, args.samples)
    /\ pc = "call"
    /\ locals = NoResult
    /\ ret = NoResult

Call0100 ==
    /\ pc = "call"
    /\ args.lrid = LR0100
    /\ ret' = parse_logical_record_0100(txt_data, args.nan_as_int)
    /\ pc' = "return"
    /\ UNCHANGED <<txt_data, args, locals>>

Call0300 ==
    /\ pc = "call"
    /\ args.lrid = LR0300
    /\ ret' = parse_logical_record_0300(txt_data, args.nan_as_int)
    /\ pc' = "return"
    /\ UNCHANGED <<txt_data, args, locals>>

Call1100 ==
    /\ pc = "call"
    /\ args.lrid = LR1100
    /\ ret' = parse_logical_record_1100(txt_data, args.nan_as_int)
    /\ pc' = "return"
    /\ UNCHANGED <<txt_data, args, locals>>

NextData == Call0100 \/ Call0300 \/ Call1100

SpecData == InitData /\ [][NextData]_vars


(***************************************************************************)
(* Vocabulary of the data decoders' properties, read off the samples the   *)
(* record was written from.                                                *)
(***************************************************************************)
NSamples == Len(args.samples)

FormAt(i) == SampleForms[args.samples[i]]

RECURSIVE LinesBefore(_)
LinesBefore(i) == IF i <= 1 THEN 0 ELSE LinesBefore(i - 1) + Len(FormAt(i - 1))

\* position in the span of line l of sample i
PosOf(i, l) == LinesBefore(i) + l

\* the forms with a wrong number of tokens in exactly one of the two lines
OneLineMiscounted == {"short1", "long1", "short2", "long2"}

\* the forms whose lines all have the number of tokens their record asks for
RightlyCounted ==
    {"good", "xvalue", "xminute", "xsecond", "single", "xvalue1", "xminute1",
     "sonde", "xvalue2", "xlevel"}

HasBadToken(i) == \E l \in 1..Len(FormAt(i)) : FormAt(i)[l].x # 0

\* where the decoder of the record reads a variable: line of the sample and
\* token of the line
PlaceOf(lrid, name) ==
    CASE lrid = LR0100 /\ name \in Range(Names0100a) ->
            [line |-> 1, token |-> IndexOf(Names0100a, name)]
      [] lrid = LR0100 /\ name \in Range(Names0100b) ->
            [line |-> 2, token |-> IndexOf(Names0100b, name)]
      [] lrid = LR0300 -> [line |-> 1, token |-> IndexOf(Names0300, name)]
      [] lrid = LR1100 -> [line |-> 1, token |-> IndexOf(Names1100, name)]

\* the number written as token j of the line at position p
Written(j, p) == IF j = 1 THEN 1 ELSE p

ExpectedFloat(i, name) ==
    LET at == PlaceOf(args.lrid, name)
    IN  IF FormAt(i)[at.line].x = at.token THEN nan
        ELSE Some(10 * Written(at.token, PosOf(i, at.line)))

ExpectedInt(i, name) ==
    LET at == PlaceOf(args.lrid, name)
    IN  IF FormAt(i)[at.line].x = at.token THEN args.nan_as_int
        ELSE Written(at.token, PosOf(i, at.line))

IntNames == {"day", "hour", "minute", "level"}

\* row k of the decoded arrays is sample i of the record, as written
RowIsSample(k, i) ==
    \A name \in DOMAIN ret.contents :
        ret.contents[name][k] =
            CASE name = "hour" -> ExpectedInt(i, "minute") \div 60
              [] name = "minute" -> ExpectedInt(i, "minute") % 60
              [] name \in {"day", "level"} -> ExpectedInt(i, name)
              [] OTHER -> ExpectedFloat(i, name)

\* the decoded arrays hold exactly the samples kept, in file order
HoldsExactly(kept) ==
    /\ ret.raised = "none"
    /\ \A name \in DOMAIN ret.contents : Len(ret.contents[name]) = Cardinality(kept)
    /\ \A i \in kept : RowIsSample(Cardinality({j \in kept : j <= i}), i)

OneMiscountedSample ==
    /\ args.lrid = LR0100
    /\ \E i \in 1..NSamples :
        /\ args.samples[i] \in OneLineMiscounted
        /\ \A j \in (1..NSamples) \ {i} : args.samples[j] = "good"

\* C6 as claimed: a record 0100 of N samples, one of which has a wrong token
\* count in exactly one of its two lines, decodes to arrays of length N - 1
\* that hold the other samples in file order.
C6_DropsExactlyTheMiscountedSample ==
    (pc = "return" /\ OneMiscountedSample) =>
        HoldsExactly({i \in 1..NSamples : args.samples[i] = "good"})

\* the same, for records in which at least one other sample is left
C6_DropsExactlyOneOfSeveral ==
    (pc = "return" /\ OneMiscountedSample /\ NSamples >= 2) =>
        HoldsExactly({i \in 1..NSamples : args.samples[i] = "good"})

AllRightlyCounted == \A i \in 1..NSamples : args.samples[i] \in RightlyCounted

\* C8 as claimed: a sample whose lines have the right number of tokens but
\* hold a token that is not a float does not appear in the decoded arrays.
C8_NonFloatTokenDropsSample ==
    (pc = "return" /\ AllRightlyCounted /\ ret.raised = "none") =>
        HoldsExactly({i \in 1..NSamples : ~HasBadToken(i)})

\* C8 amended: in records 0100, 0300 and 1100 a sample whose lines have the
\* right number of tokens is kept whether or not its tokens parse as floats;
\* a token that does not parse is decoded as not-a-number in its column, and
\* in the integer columns (day, minute and hour, level) as what the cast of
\* not-a-number to int yields.
C8_NonFloatTokenDecodesAsNaN ==
    (pc = "return" /\ AllRightlyCounted /\ NSamples >= 1) =>
        HoldsExactly(1..NSamples)

\* a kept sample with not-a-number in a measurement column, between two
\* samples of numbers
C8_Witness ==
    /\ pc = "return"
    /\ AllRightlyCounted
    /\ NSamples = 3
    /\ HasBadToken(2) /\ ~HasBadToken(1) /\ ~HasBadToken(3)
    /\ ret.raised = "none"
    /\ \E name \in DOMAIN ret.contents :
        name \notin IntNames /\ ret.contents[name][2] = nan


(***************************************************************************)
(* parse_logical_record_0008: the radiation instruments.  The decoder      *)
(* reads, for every instrument, the line under the cursor and then moves   *)
(* the cursor nine times, reading a line after each move: ten lines.       *)
(***************************************************************************)
\* float(x) on a stripped field, in tenths; Raises tells when it does not read
float(x) == FloatValue(x)

Raises(conversion, x) ==
    CASE conversion = "int" -> ~IsIntLiteral(x)
      [] conversion = "float" -> ~IsFloatLiteral(x)

\* what a line of the instrument gives: the error of parse, ValueError from
\* a conversion, or the fields to put into radinstr
Decoded(m, converts, fields) ==
    IF m.raised # "none" THEN m
    ELSE IF ~converts THEN [raised |-> "ValueError"]
    ELSE [raised |-> "none", fields |-> fields]

PatternChange == <<Sp, Grp(2), Sp, Grp(2), Sp, Grp(2), Sp, Grp(1)>>

PatternInstrument == <<Grp(30), Sp, Grp(15), Sp, Grp(18), Sp, Grp(8), Sp, Rest>>

PatternDetails ==
    <<Sp, Grp(2), Sp, Grp(2), Sp, Grp(7), Sp, Grp(7), Sp, Grp(7), Sp, Grp(7),
      Sp, Grp(7), Sp, Grp(7), Sp, Grp(2), Sp, Grp(2)>>

PatternCalibration == <<Grp(30), Sp, Rest>>

PatternBand == <<Grp(8), Sp, Grp(8), Sp, Grp(2), Sp, Grp(12), Sp, Grp(12)>>

\* date when change occurred
ChangeFields(m) ==
    Decoded(m, \A i \in 1..3 : ~Raises("int", m.value[i]),
            [changed_on |-> [day |-> Translate(-1, int(m.value[1])),
                             hour |-> Translate(-1, int(m.value[2])),
                             minute |-> Translate(-1, int(m.value[3]))],
             operating |-> m.value[4] = <<"Y">>])

\* manufacturer, model, serial number, purchase date and WRMC id number
InstrumentFields(m) ==
    Decoded(m, ~Raises("int", m.value[5]),
            [manufacturer |-> m.value[1],
             model |-> m.value[2],
             serial_number |-> m.value[3],
             purchase_date |-> m.value[4],
             wrmc_id |-> int(m.value[5])])

\* instrument and calibration technical details; -1. is -10 tenths
DetailsFields(m) ==
    Decoded(m, /\ \A i \in {1, 2, 9, 10} : ~Raises("int", m.value[i])
               /\ \A i \in 3..8 : ~Raises("float", m.value[i]),
            [pyrgeometer_body_compensation_code |-> Translate(-1, int(m.value[1])),
             pyrgeometer_dome_compensation_code |-> Translate(-1, int(m.value[2])),
             wavelength_of_band_1 |-> Translate(-10, float(m.value[3])),
             bandwidth_of_band_1 |-> Translate(-10, float(m.value[4])),
             wavelength_of_band_2 |-> Translate(-10, float(m.value[5])),
             bandwidth_of_band_2 |-> Translate(-10, float(m.value[6])),
             wavelength_of_band_3 |-> Translate(-10, float(m.value[7])),
             bandwidth_of_band_3 |-> Translate(-10, float(m.value[8])),
             max_xx_zenith_angle_direct_degrees |-> Translate(-1, int(m.value[9])),
             min_xx_spectral_instrument |-> Translate(-1, int(m.value[10]))])

CalibrationFields(m) ==
    Decoded(m, TRUE,
            [location_of_calibration |-> m.value[1],
             person_doing_calibration |-> m.value[2]])

\* the calibration of one band
BandFields(m, band) ==
    Decoded(m, /\ ~Raises("int", m.value[3])
               /\ ~Raises("float", m.value[4])
               /\ ~Raises("float", m.value[5]),
            CASE band = 1 -> [start_of_calibration_period_of_band_1 |-> m.value[1],
                           end_of_calibration_period_of_band_1 |-> m.value[2],
                           number_of_comparisons_of_band_1 |->
                               Translate(-1, int(m.value[3])),
                           mean_calibration_coefficient_of_band_1 |->
                               Translate(-10, float(m.value[4])),
                           standard_error_of_calibration_coefficient_of_band_1 |->
                               Translate(-10, float(m.value[5]))]
              [] band = 2 -> [start_of_calibration_period_of_band_2 |-> m.value[1],
                           end_of_calibration_period_of_band_2 |-> m.value[2],
                           number_of_comparisons_of_band_2 |->
                               Translate(-1, int(m.value[3])),
                           mean_calibration_coefficient_of_band_2 |->
                               Translate(-10, float(m.value[4])),
                           standard_error_of_calibration_coefficient_of_band_2 |->
                               Translate(-10, float(m.value[5]))]
              [] band = 3 -> [start_of_calibration_period_of_band_3 |-> m.value[1],
                           end_of_calibration_period_of_band_3 |-> m.value[2],
                           number_of_comparisons_of_band_3 |->
                               Translate(-1, int(m.value[3])),
                           mean_calibration_coefficient_of_band_3 |->
                               Translate(-10, float(m.value[4])),
                           standard_error_of_calibration_coefficient_of_band_3 |->
                               Translate(-10, float(m.value[5]))])

\* the k-th line the decoder reads for an instrument, k from 0
InstrumentLine(k, line, radinstr) ==
    CASE k = 0 -> ChangeFields(parse(line, PatternChange, "none", None))
      [] k = 1 -> InstrumentFields(parse(line, PatternInstrument, "none", None))
      [] k = 2 -> [raised |-> "none", fields |-> [remarks |-> Strip(line)]]
      [] k = 3 -> DetailsFields(parse(line, PatternDetails, "none", None))
      [] k = 4 -> CalibrationFields(parse(line, PatternCalibration, "none", None))
      [] k \in 5..7 -> BandFields(parse(line, PatternBand, "none", None), k - 4)
      [] k = 8 -> [raised |-> "none", fields |-> [calibration_remarks |-> <<Strip(line)>>]]
      [] k = 9 -> [raised |-> "none",
                   fields |-> [calibration_remarks |->
                                  Append(radinstr.calibration_remarks, Strip(line))]]

\* the body of the while loop from its k-th line on: txt_data[nline + k] past
\* the end of the list is IndexError
RECURSIVE ReadInstrument(_, _, _, _)
ReadInstrument(txt, nline, k, radinstr) ==
    IF k > 9 THEN [raised |-> "none", radinstr |-> radinstr]
    ELSE IF nline + k > Len(txt) - 1 THEN [raised |-> "IndexError"]
    ELSE LET read == InstrumentLine(k, txt[nline + k + 1], radinstr)
         IN  IF read.raised # "none" THEN read
             ELSE ReadInstrument(txt, nline, k + 1, read.fields @@ radinstr)

\* str.format of an integer
FormatInt(n) == IF n < 0 THEN <<"-">> \o Str(0 - n) ELSE Str(n)

\* a faulty variant: the instrument is keyed by its position in the record
radinstr_key_by_position(radinstr, n_instrument) ==
    <<"r", "a", "d", "i", "a", "t", "i", "o", "n", "_",
      "i", "n", "s", "t", "r", "u", "m", "e", "n", "t", "_">> \o FormatInt(n_instrument)

\* 'radiation_instrument_{0}'.format(radinstr['wrmc_id'])
radinstr_key(radinstr, n_instrument) ==
    <<"r", "a", "d", "i", "a", "t", "i", "o", "n", "_",
      "i", "n", "s", "t", "r", "u", "m", "e", "n", "t", "_">> \o FormatInt(radinstr.wrmc_id)

\* the while loop, nline and n_instrument at its top
RECURSIVE Instruments(_, _, _, _)
Instruments(txt, nline, n_instrument, contents) ==
    IF ~(nline < Len(txt)) THEN [raised |-> "none", contents |-> contents]
    ELSE LET read == ReadInstrument(txt, nline, 0, <<>>)
         IN  IF read.raised # "none" THEN read
             ELSE Instruments(txt, nline + 10, n_instrument + 1,
                              (radinstr_key(read.radinstr, n_instrument) :> read.radinstr)
                                  @@ contents)

parse_logical_record_0008(txt) == Instruments(txt, 1, 1, <<>>)


(***************************************************************************)
(* Specification of parse_logical_record_0008: the marker line followed by *)
(* at most MaxInstruments blocks.  A block holds the lines of one          *)
(* instrument: with both lines of calibration remarks (ten), with one of   *)
(* them only (nine), with a WRMC id that is not a number (badid), or with  *)
(* a date of change cut short (shortdate).                                 *)
(***************************************************************************)
MaxInstruments == 2

Pad(text, n) == text \o Repeat(" ", n - Len(text))

MissingFloat7 == <<" ", " ", " ", "-", "1", ".", "0">>

Float7 == <<" ", " ", " ", " ", "0", ".", "3">>

BandLine(count) ==
    Pad(<<"0", "1">>, 8) \o <<" ">> \o Pad(<<"0", "2">>, 8) \o <<" ">> \o count \o <<" ">>
        \o Pad(<<"1", ".", "5">>, 12) \o <<" ">> \o Pad(<<"-", "1", ".", "0">>, 12)

BlockLines(block) ==
    LET change == IF block.form = "shortdate" THEN <<" ", "0", "1">>
                  ELSE <<" ", "0", "1", " ", "-", "1", " ", "0", "0", " ", block.operating>>
        wrmc == IF block.form = "badid" THEN <<"x">> ELSE Str(block.id)
        ten == <<change,
                 Pad(<<"K", "Z">>, 30) \o <<" ">> \o Pad(<<"C", "M">>, 15) \o <<" ">>
                     \o Pad(<<"7">>, 18) \o <<" ">> \o Pad(<<"9", "9">>, 8) \o <<" ">> \o wrmc,
                 <<" ", "n", "o", " ">>,
                 <<" ", "-", "1", " ", "0", "2">>
                     \o <<" ">> \o MissingFloat7 \o <<" ">> \o Float7
                     \o <<" ">> \o MissingFloat7 \o <<" ">> \o MissingFloat7
                     \o <<" ">> \o MissingFloat7 \o <<" ">> \o MissingFloat7
                     \o <<" ", "-", "1", " ", "4", "5">>,
                 Pad(<<"P">>, 30) \o <<" ", "J">>,
                 BandLine(<<"0", "5">>),
                 BandLine(<<"-", "1">>),
                 BandLine(<<"-", "1">>),
                 <<"c", "1">>,
                 <<"c", "2">>>>
    IN  IF block.form = "nine" THEN SubSeq(ten, 1, 9) ELSE ten

InstrumentBlocks ==
    {[form |-> "ten", id |-> i, operating |-> o] : i \in {1, 2}, o \in {"Y", "N"}}
    \cup {[form |-> "nine", id |-> i, operating |-> "Y"] : i \in {1, 2}}
    \cup {[form |-> f, id |-> 1, operating |-> "Y"] : f \in {"badid", "shortdate"}}

LR0008 == <<"0", "0", "0", "8">>

Init0008 ==
    /\ args \in {[blocks |-> b] : b \in SeqsUpTo(InstrumentBlocks, MaxInstruments)}
    /\ txt_data = <<MarkerLine("U", LR0008)>>
                      \o Flatten([i \in 1..Len(args.blocks) |-> BlockLines(args.blocks[i])])
    /\ pc = "call"
    /\ locals = NoResult
    /\ ret = NoResult

Call0008 ==
    /\ pc = "call"
    /\ ret' = parse_logical_record_0008(txt_data)
    /\ pc' = "return"
    /\ UNCHANGED <<txt_data, args, locals>>

Spec0008 == Init0008 /\ [][Call0008]_vars

(***************************************************************************)
(* Properties of parse_logical_record_0008 over the records of Spec0008.   *)
(***************************************************************************)
Decoded0008 == pc = "return" /\ "blocks" \in DOMAIN args

AllOfForm(form) == \A i \in 1..Len(args.blocks) : args.blocks[i].form = form

KeyOf(id) ==
    <<"r", "a", "d", "i", "a", "t", "i", "o", "n", "_",
      "i", "n", "s", "t", "r", "u", "m", "e", "n", "t", "_">> \o Str(id)

\* the last block of the record that reports the WRMC id
LastBlockOf(id) ==
    args.blocks[CHOOSE i \in 1..Len(args.blocks) :
                    /\ args.blocks[i].id = id
                    /\ \A j \in (i + 1)..Len(args.blocks) : args.blocks[j].id # id]

\* what the lines of a block say, field by field
ExpectedInstrument(block) ==
    [changed_on |-> [day |-> Some(1), hour |-> None, minute |-> Some(0)],
     operating |-> block.operating = "Y",
     manufacturer |-> <<"K", "Z">>,
     model |-> <<"C", "M">>,
     serial_number |-> <<"7">>,
     purchase_date |-> <<"9", "9">>,
     wrmc_id |-> block.id,
     remarks |-> <<"n", "o">>,
     pyrgeometer_body_compensation_code |-> None,
     pyrgeometer_dome_compensation_code |-> Some(2),
     wavelength_of_band_1 |-> None,
     bandwidth_of_band_1 |-> Some(3),
     wavelength_of_band_2 |-> None,
     bandwidth_of_band_2 |-> None,
     wavelength_of_band_3 |-> None,
     bandwidth_of_band_3 |-> None,
     max_xx_zenith_angle_direct_degrees |-> None,
     min_xx_spectral_instrument |-> Some(45),
     location_of_calibration |-> <<"P">>,
     person_doing_calibration |-> <<"J">>,
     start_of_calibration_period_of_band_1 |-> <<"0", "1">>,
     end_of_calibration_period_of_band_1 |-> <<"0", "2">>,
     number_of_comparisons_of_band_1 |-> Some(5),
     mean_calibration_coefficient_of_band_1 |-> Some(15),
     standard_error_of_calibration_coefficient_of_band_1 |-> None,
     start_of_calibration_period_of_band_2 |-> <<"0", "1">>,
     end_of_calibration_period_of_band_2 |-> <<"0", "2">>,
     number_of_comparisons_of_band_2 |-> None,
     mean_calibration_coefficient_of_band_2 |-> Some(15),
     standard_error_of_calibration_coefficient_of_band_2 |-> None,
     start_of_calibration_period_of_band_3 |-> <<"0", "1">>,
     end_of_calibration_period_of_band_3 |-> <<"0", "2">>,
     number_of_comparisons_of_band_3 |-> None,
     mean_calibration_coefficient_of_band_3 |-> Some(15),
     standard_error_of_calibration_coefficient_of_band_3 |-> None,
     calibration_remarks |-> <<<<"c", "1">>, <<"c", "2">>>>]

TwoBlocksOfDistinctIds ==
    Len(args.blocks) = 2 /\ args.blocks[1].id # args.blocks[2].id

\* C10 as stated: a record of the marker line and two blocks of 9 conforming
\* lines (18 lines) reporting two WRMC ids decodes without error into exactly
\* two entries, each keyed by the WRMC id of its block.
C10_NineLineBlocksDecode ==
    (Decoded0008 /\ AllOfForm("nine") /\ TwoBlocksOfDistinctIds)
    => /\ ret.raised = "none"
       /\ DOMAIN ret.contents = {KeyOf(args.blocks[i].id) : i \in 1..2}
       /\ \A i \in 1..2 : ret.contents[KeyOf(args.blocks[i].id)].wrmc_id = args.blocks[i].id

\* C10 amended: the decoder consumes 10 lines per instrument.  A record of
\* the marker line and blocks of 10 conforming lines decodes without error
\* into one entry per distinct WRMC id, keyed by that id and holding the
\* fields of the last block that reports it, so that two blocks of distinct
\* ids give the same two entries in either order; a record of the marker
\* line and two blocks of 9 lines raises.
C10_TenLineBlocksDecodeByWrmcId ==
    Decoded0008 =>
        /\ AllOfForm("ten") =>
              /\ ret.raised = "none"
              /\ DOMAIN ret.contents =
                    {KeyOf(args.blocks[i].id) : i \in 1..Len(args.blocks)}
              /\ \A i \in 1..Len(args.blocks) :
                    ret.contents[KeyOf(args.blocks[i].id)] =
                        ExpectedInstrument(LastBlockOf(args.blocks[i].id))
        /\ (AllOfForm("nine") /\ Len(args.blocks) = 2) => ret.raised # "none"

C10_Witness ==
    /\ Decoded0008
    /\ AllOfForm("ten")
    /\ TwoBlocksOfDistinctIds
    /\ args.blocks[1].id > args.blocks[2].id
    /\ ret.raised = "none"
    /\ Cardinality(DOMAIN ret.contents) = 2

(***************************************************************************)
(* parse_logical_record_0005 and parse_logical_record_0006: the radiosonde *)
(* and the ozone equipment.                                                *)
(***************************************************************************)
PatternRadiosonde ==
    <<Grp(30), Sp, Grp(25), Sp, Grp(3), Sp, Grp(2), Sp, Grp(2), Sp, Grp(2), Sp, Grp(2),
      Sp, Rest>>

PatternOzone == <<Grp(30), Sp, Grp(25), Sp, Grp(3), Sp, Rest>>

\* the error raised for a span that does not hold 3 lines
ExpectedThreeLines(txt) ==
    [raised |-> "BSRNParsingError", expected |-> 3, got |-> Len(txt)]

\* two steps of a decoder one after the other: the first error leaves it
Then(first, second) ==
    IF first.raised # "none" THEN first
    ELSE IF second.raised # "none" THEN second
    ELSE [raised |-> "none", fields |-> second.fields @@ first.fields]

\* the return of a decoder whose steps gave done
Returned(done) ==
    IF done.raised # "none" THEN done ELSE [raised |-> "none", contents |-> done.fields]

\* date when change occurred, of the radiosonde
RadiosondeChange(m) ==
    Decoded(m, \A i \in 1..3 : ~Raises("int", m.value[i]),
            [radiosonde_changed_on |->
                [day |-> Translate(-1, int(m.value[1])),
                 hour |-> Translate(-1, int(m.value[2])),
                 minute |-> Translate(-1, int(m.value[3]))],
             radiosonde_operating |-> m.value[4] = <<"Y">>])

\* manufacturer, location, distance from site, launch times, radiosonde id
RadiosondeFields(m) ==
    Decoded(m, \A i \in 3..7 : ~Raises("int", m.value[i]),
            [radiosonde_manufacturer |-> m.value[1],
             radiosonde_location |-> m.value[2],
             radiosonde_distance_km |-> int(m.value[3]),
             radiosonde_hUTC_1st_launch |-> Translate(-1, int(m.value[4])),
             radiosonde_hUTC_2nd_launch |-> Translate(-1, int(m.value[5])),
             radiosonde_hUTC_3rd_launch |-> Translate(-1, int(m.value[6])),
             radiosonde_hUTC_4th_launch |-> Translate(-1, int(m.value[7])),
             radiosonde_id |-> m.value[8]])

\* txt_data[3] does not exist in a list of 3 lines: the IndexError is caught
\* and the remarks are the empty string
parse_logical_record_0005(txt) ==
    IF Len(txt) # 3 THEN ExpectedThreeLines(txt)
    ELSE Returned(
           Then(Then(RadiosondeChange(parse(txt[2], PatternChange, "none", None)),
                     RadiosondeFields(parse(txt[3], PatternRadiosonde, "none", None))),
                [raised |-> "none", fields |-> [radiosonde_remarks |-> <<>>]]))

\* date when change occurred, of the ozone instrument
OzoneChange(m) ==
    Decoded(m, \A i \in 1..3 : ~Raises("int", m.value[i]),
            [ozone_changed_on |->
                [day |-> Translate(-1, int(m.value[1])),
                 hour |-> Translate(-1, int(m.value[2])),
                 minute |-> Translate(-1, int(m.value[3]))],
             ozone_operating |-> m.value[4] = <<"Y">>])

\* manufacturer, location, distance from site and ozone id
OzoneFields(m) ==
    Decoded(m, ~Raises("int", m.value[3]),
            [ozone_manufacturer |-> m.value[1],
             ozone_location |-> m.value[2],
             ozone_distance_km |-> int(m.value[3]),
             ozone_id |-> m.value[4]])

\* txt_data[3] does not exist in a list of 3 lines and nothing catches the
\* IndexError
parse_logical_record_0006(txt) ==
    IF Len(txt) # 3 THEN ExpectedThreeLines(txt)
    ELSE Returned(
           Then(Then(OzoneChange(parse(txt[2], PatternChange, "none", None)),
                     OzoneFields(parse(txt[3], PatternOzone, "none", None))),
                IF Len(txt) > 3
                THEN [raised |-> "none", fields |-> [ozone_remarks |-> Strip(txt[4])]]
                ELSE [raised |-> "IndexError"]))

(***************************************************************************)
(* Specification of the two equipment decoders: the marker line of record  *)
(* 0005 or 0006 followed by at most MaxEquipmentLines lines, each a date   *)
(* of change, a date cut short, a radiosonde line, an ozone line, an ozone *)
(* line whose distance is not a number, or a line of remarks.              *)
(***************************************************************************)
MaxEquipmentLines == 3

EquipmentLine(kind) ==
    CASE kind = "change" -> <<" ", "0", "1", " ", "-", "1", " ", "0", "0", " ", "Y">>
      [] kind = "shortchange" -> <<" ", "0", "1">>
      [] kind = "radiosonde" ->
            Pad(<<"V">>, 30) \o <<" ">> \o Pad(<<"L">>, 25) \o <<" ">>
                \o <<"0", "1", "2", " ", "0", "0", " ", "1", "2", " ", "-", "1", " ", "-", "1",
                     " ", "R", "1">>
      [] kind = "ozone" ->
            Pad(<<"D">>, 30) \o <<" ">> \o Pad(<<"L">>, 25) \o <<" ">>
                \o <<" ", "2", "0", " ", "O", "3">>
      [] kind = "baddistance" ->
            Pad(<<"D">>, 30) \o <<" ">> \o Pad(<<"L">>, 25) \o <<" ">>
                \o <<" ", "x", "x", " ", "O", "3">>
      [] kind = "remark" -> <<" ", "n", "o">>

EquipmentLineKinds ==
    {"change", "shortchange", "radiosonde", "ozone", "baddistance", "remark"}

LR0005 == <<"0", "0", "0", "5">>

LR0006 == <<"0", "0", "0", "6">>

InitEquipment ==
    /\ args \in {[lrid |-> id, lines |-> ls] :
                    id \in {LR0005, LR0006},
                    ls \in SeqsUpTo(EquipmentLineKinds, MaxEquipmentLines)}
    /\ txt_data = <<MarkerLine("U", args.lrid)>>
                      \o [i \in 1..Len(args.lines) |-> EquipmentLine(args.lines[i])]
    /\ pc = "call"
    /\ locals = NoResult
    /\ ret = NoResult

Call0005 ==
    /\ pc = "call"
    /\ args.lrid = LR0005
    /\ ret' = parse_logical_record_0005(txt_data)
    /\ pc' = "return"
    /\ UNCHANGED <<txt_data, args, locals>>

Call0006 ==
    /\ pc = "call"
    /\ args.lrid = LR0006
    /\ ret' = parse_logical_record_0006(txt_data)
    /\ pc' = "return"
    /\ UNCHANGED <<txt_data, args, locals>>

SpecEquipment == InitEquipment /\ [][Call0005 \/ Call0006]_vars

\* the span does not hold 3 lines, the marker line included
WrongSpanLength == Len(txt_data) # 3

IsLengthError ==
    ret.raised = "BSRNParsingError" /\ "expected" \in DOMAIN ret /\ ret.got = Len(txt_data)

\* C11: record 0006 under the contract of record 0005.  A span that does
\* not hold 3 lines raises a parsing error, and a span of 3 lines whose date
\* of change and ozone line conform decodes into the ozone attributes.
C11_OzoneThreeLineContract ==
    (pc = "return" /\ args.lrid = LR0006) =>
        /\ WrongSpanLength => IsLengthError
        /\ args.lines = <<"change", "ozone">> =>
              /\ ret.raised = "none"
              /\ ret.contents.ozone_id = <<"O", "3">>
              /\ ret.contents.ozone_distance_km = 20
              /\ ret.contents.ozone_operating

\* the contract as record 0005 keeps it: the remarks, which a span of 3
\* lines cannot hold, come back empty
C11_RadiosondeThreeLineContract ==
    (pc = "return" /\ args.lrid = LR0005) =>
        /\ WrongSpanLength => IsLengthError
        /\ args.lines = <<"change", "radiosonde">> =>
              /\ ret.raised = "none"
              /\ ret.contents.radiosonde_id = <<"R", "1">>
              /\ ret.contents.radiosonde_distance_km = 12
              /\ ret.contents.radiosonde_hUTC_2nd_launch = Some(12)
              /\ ret.contents.radiosonde_hUTC_3rd_launch = None
              /\ ret.contents.radiosonde_remarks = <<>>

\* record 0006 never decodes: whatever the span, the decoder raises
C11_OzoneNeverDecodes ==
    (pc = "return" /\ args.lrid = LR0006) => ret.raised # "none"


(***************************************************************************)
(* parse_logical_record_0004: the station description and the horizon.     *)
(***************************************************************************)
PatternDate == <<Sp, Grp(2), Sp, Grp(2), Sp, Grp(2)>>

PatternSurface == <<Sp, Grp(2), Sp, Grp(2)>>

PatternTelephone == <<Grp(20), Sp, Rest>>

PatternTcpIp == <<Grp(15), Sp, Rest>>

PatternLocation == <<Sp, Grp(7), Sp, Grp(7), Sp, Grp(4), Sp, Rest>>

PatternHorizon ==
    Flatten([i \in 1..11 |-> <<Sp, Grp(3), Sp, Grp(2)>>])

\* a date of change under the key: day, hour and minute, -1 for a missing one
DateFields(m, key) ==
    IF m.raised # "none" THEN m
    ELSE [raised |-> "none",
          fields |-> key :> [day |-> m.value[1], hour |-> m.value[2],
                             minute |-> m.value[3]]]

\* surface and topography type; the key of the second is spelt as in the code
SurfaceFields(m) ==
    Decoded(m, TRUE, [surface_type |-> m.value[1], topograpy_type |-> m.value[2]])

AddressFields(line) ==
    [raised |-> "none", fields |-> [station_address |-> Strip(line)]]

TelephoneFields(m) ==
    Decoded(m, TRUE, [station_telephone |-> m.value[1], station_fax |-> m.value[2]])

TcpIpFields(m) ==
    Decoded(m, TRUE, ("station_tcp/ip" :> m.value[1]) @@ [station_email |-> m.value[2]])

\* a faulty variant: latitude and longitude are stored as they are
LocationFieldsAsStored(m) ==
    Decoded(m, \A i \in 1..3 : ~Raises("float", m.value[i]),
            [latitude |-> float(m.value[1]),
             longitude |-> float(m.value[2]),
             altitude |-> float(m.value[3]),
             synop_id |-> Strip(m.value[4])])

\* geographical location, the floats in tenths
LocationFields(m) ==
    Decoded(m, \A i \in 1..3 : ~Raises("float", m.value[i]),
            [latitude |-> float(m.value[1]) - 900,
             longitude |-> float(m.value[2]) - 1800,
             altitude |-> float(m.value[3]),
             synop_id |-> Strip(m.value[4])])

\* m[0::2] for start 1 and m[1::2] for start 2, Python's indices plus one
EveryOther(m, start) ==
    [i \in 1..((Len(m) + 2 - start) \div 2) |-> m[start + 2 * (i - 1)]]

\* the loop over txt_data[8:], nline the index of the line to read
RECURSIVE HorizonFields(_, _, _, _)
HorizonFields(txt, nline, horizon_azimuth, horizon_elevation) ==
    IF nline > Len(txt) - 1
    THEN [raised |-> "none",
          fields |-> [horizon_azimuth |-> horizon_azimuth,
                      horizon_elevation |-> horizon_elevation]]
    ELSE LET m == parse(txt[nline + 1], PatternHorizon, "int", None)
         IN  IF m.raised # "none" THEN m
             ELSE HorizonFields(txt, nline + 1,
                      horizon_azimuth \o
                          EveryOther(SelectSeq(m.value, LAMBDA x : x # 0 - 1), 1),
                      horizon_elevation \o
                          EveryOther(SelectSeq(m.value, LAMBDA x : x # 0 - 1), 2))

\* the steps up to the geographical location read txt_data[1] to txt_data[6]
StationFields(txt) ==
    Then(Then(Then(Then(Then(
        DateFields(parse(txt[2], PatternDate, "int", Some(0 - 1)), "description_changed_on"),
        SurfaceFields(parse(txt[3], PatternSurface, "int", None))),
        AddressFields(txt[4])),
        TelephoneFields(parse(txt[5], PatternTelephone, "none", None))),
        TcpIpFields(parse(txt[6], PatternTcpIp, "none", None))),
        LocationFields(parse(txt[7], PatternLocation, "none", None)))

\* every line is read by its index: a span without it raises IndexError
parse_logical_record_0004(txt) ==
    IF Len(txt) < 7 THEN [raised |-> "IndexError"]
    ELSE Returned(
           Then(StationFields(txt),
                IF Len(txt) < 8 THEN [raised |-> "IndexError"]
                ELSE Then(DateFields(parse(txt[8], PatternDate, "int", Some(0 - 1)),
                                     "horizon_changed_on"),
                          HorizonFields(txt, 8, <<>>, <<>>))))

(***************************************************************************)
(* Specification of parse_logical_record_0004: the marker line, the six    *)
(* lines of the station, the date of the horizon and at most               *)
(* MaxHorizonLines lines of horizon, or the record cut after the           *)
(* geographical location.  The surface and topography codes and the        *)
(* fields of the geographical location are written in several ways.        *)
(***************************************************************************)
MaxHorizonLines == 2

\* n pairs of azimuth and elevation, then missing pairs up to 11
HorizonLine(n) ==
    Flatten([i \in 1..11 |->
                IF i <= n THEN <<" ">> \o Pad(Str(i), 3) \o <<" ", " ", "5">>
                ELSE <<" ", " ", "-", "1", " ", "-", "1">>])

StationLines(st) ==
    LET head == <<MarkerLine("U", <<"0", "0", "0", "4">>),
                  <<" ", "0", "1", " ", "-", "1", " ", "0", "0">>,
                  <<" ">> \o st.surface \o <<" ">> \o st.topography,
                  <<" ", "R", "d", " ", "1">>,
                  Pad(<<"5", "5", "5">>, 20) \o <<" ", "5", "5", "6">>,
                  Pad(<<"1", ".", "2">>, 15) \o <<" ", "a", "@", "b">>,
                  <<" ">> \o st.latitude \o <<" ">> \o st.longitude \o <<" ">>
                      \o st.altitude \o <<" ">> \o st.synop>>
    IN  IF st.horizon < 0 THEN head
        ELSE head \o <<<<" ", "-", "1", " ", "-", "1", " ", "-", "1">>>>
                  \o [i \in 1..st.horizon |-> HorizonLine(i)]

Latitudes ==
    {<<"0", "9", "0", ".", "0", "0", "0">>, <<" ", "4", "9", ".", "5", "0", "0">>,
     <<"0", "9", "0", ".", "0", "0", "0", "0">>, <<" ", " ", " ", " ", " ", " ", "x">>}

Longitudes ==
    {<<"1", "8", "0", ".", "0", "0", "0">>, <<" ", "7", "6", ".", "5", "0", "0">>,
     <<"1", "8", "0", ".", "0", "0", "0", "0">>}

Altitudes == {<<"0", "1", "0", "0">>, <<" ", " ", "2", "5">>}

SynopIds == {<<"1", "2", "3", "4", "5">>, <<" ", "7", " ">>}

Stations ==
    [surface : {<<"0", "1">>}, topography : {<<"0", "2">>},
     latitude : Latitudes, longitude : Longitudes, altitude : Altitudes,
     synop : SynopIds, horizon : (0 - 1)..MaxHorizonLines]

\* the stations of the files of load_data: codes that Table A4 and Table A5
\* hold or not, and a record cut after the geographical location
StationForms ==
    LET Station(surface, topography, horizon) ==
            [surface |-> surface, topography |-> topography,
             latitude |-> <<" ", "4", "9", ".", "5", "0", "0">>,
             longitude |-> <<" ", "7", "6", ".", "5", "0", "0">>,
             altitude |-> <<"0", "1", "0", "0">>,
             synop |-> <<"1", "2", "3", "4", "5">>, horizon |-> horizon]
    IN  [known |-> Station(<<"2", "1">>, <<" ", "2">>, 1),
         nosurface |-> Station(<<"3", "0">>, <<"0", "8">>, 0),
         notopography |-> Station(<<"0", "1">>, <<"0", "9">>, 0),
         neither |-> Station(<<" ", "0">>, <<"-", "1">>, 1),
         cut |-> Station(<<"0", "1">>, <<"0", "2">>, 0 - 1)]

LR0004 == <<"0", "0", "0", "4">>

Init0004 ==
    /\ args \in Stations
    /\ txt_data = StationLines(args)
    /\ pc = "call"
    /\ locals = NoResult
    /\ ret = NoResult

Call0004 ==
    /\ pc = "call"
    /\ ret' = parse_logical_record_0004(txt_data)
    /\ pc' = "return"
    /\ UNCHANGED <<txt_data, args, locals>>

Spec0004 == Init0004 /\ [][Call0004]_vars

(***************************************************************************)
(* Properties of parse_logical_record_0004 over the records of Spec0004.   *)
(***************************************************************************)
Located(latitude, longitude, altitude, synop) ==
    /\ pc = "return"
    /\ args.horizon >= 0
    /\ args.latitude = latitude
    /\ args.longitude = longitude
    /\ args.altitude = altitude
    /\ args.synop = synop

\* latitude, longitude and altitude in tenths, and the id
LocationIs(latitude, longitude, altitude, synop_id) ==
    /\ ret.raised = "none"
    /\ ret.contents.latitude = latitude
    /\ ret.contents.longitude = longitude
    /\ ret.contents.altitude = altitude
    /\ ret.contents.synop_id = synop_id

\* C16 as stated: a geographic-location line holding 090.0000, 180.0000,
\* 0100 and 12345 decodes to latitude 0.0, longitude 0.0, altitude 100.0 and
\* synop_id 12345.
C16_FourDecimalLocationDecodes ==
    Located(<<"0", "9", "0", ".", "0", "0", "0", "0">>,
            <<"1", "8", "0", ".", "0", "0", "0", "0">>,
            <<"0", "1", "0", "0">>, <<"1", "2", "3", "4", "5">>)
    => LocationIs(0, 0, 1000, <<"1", "2", "3", "4", "5">>)

\* C16: the fields of the geographic-location line are 7, 7 and 4
\* characters wide.  The line holding 090.000, 180.000, 0100 and 12345
\* decodes to latitude 0.0, longitude 0.0, altitude 100.0 and synop_id
\* 12345; every line whose three numbers are floats decodes to the stored
\* latitude minus 90, the stored longitude minus 180, the stored altitude
\* and the id without the blanks around it; a line that writes the latitude
\* or the longitude with four decimals, 8 characters, raises
\* BSRNParsingError.
C16_LocationIsStoredMinusOffset ==
    /\ Located(<<"0", "9", "0", ".", "0", "0", "0">>,
               <<"1", "8", "0", ".", "0", "0", "0">>,
               <<"0", "1", "0", "0">>, <<"1", "2", "3", "4", "5">>)
       => LocationIs(0, 0, 1000, <<"1", "2", "3", "4", "5">>)
    /\ (/\ pc = "return"
        /\ args.horizon >= 0
        /\ Len(args.latitude) = 7
        /\ Len(args.longitude) = 7
        /\ IsFloatLiteral(Strip(args.latitude)))
       => LocationIs(FloatValue(Strip(args.latitude)) - 900,
                     FloatValue(Strip(args.longitude)) - 1800,
                     FloatValue(Strip(args.altitude)),
                     Strip(args.synop))
    /\ (pc = "return" /\ (Len(args.latitude) = 8 \/ Len(args.longitude) = 8))
       => ret.raised = "BSRNParsingError"

\* latitude 49.5 and longitude 76.5 are stored: 40.5 degrees south, 103.5 west
C16_Witness ==
    /\ Located(<<" ", "4", "9", ".", "5", "0", "0">>,
               <<" ", "7", "6", ".", "5", "0", "0">>,
               <<" ", " ", "2", "5">>, <<" ", "7", " ">>)
    /\ LocationIs(0 - 405, 0 - 1035, 250, <<"7">>)

(***************************************************************************)
(* load_data, the branch for one year and one month, from the lines of the *)
(* station-to-archive file on: the scan, the loop over the metadata        *)
(* records, the loop over the data records with its handler of ValueError, *)
(* and the table of values built from record 0100.                         *)
(***************************************************************************)
LR0003 == <<"0", "0", "0", "3">>

\* parse_logical_record_0003
parse_logical_record_0003(lines) ==
    IF Len(lines) < 2 THEN [raised |-> "IndexError"]
    ELSE [raised |-> "none", contents |-> [message |-> Strip(lines[2])]]

MetadataParserIds == {LR0003, LR0004, LR0005, LR0006, LR0008}

metadata_parsers(lrid, lines) ==
    CASE lrid = LR0003 -> parse_logical_record_0003(lines)
      [] lrid = LR0004 -> parse_logical_record_0004(lines)
      [] lrid = LR0005 -> parse_logical_record_0005(lines)
      [] lrid = LR0006 -> parse_logical_record_0006(lines)
      [] lrid = LR0008 -> parse_logical_record_0008(lines)

\* a faulty variant: the ids from the greatest to the least
RECURSIVE SortedDescending(_)
SortedDescending(ids) ==
    IF ids = {} THEN <<>>
    ELSE LET greatest == CHOOSE a \in ids : \A b \in ids : DigitsValue(a) >= DigitsValue(b)
         IN  <<greatest>> \o SortedDescending(ids \ {greatest})

\* sorted(logical_records): the ids are strings of four digits
RECURSIVE Sorted(_)
Sorted(ids) ==
    IF ids = {} THEN <<>>
    ELSE LET least == CHOOSE a \in ids : \A b \in ids : DigitsValue(a) <= DigitsValue(b)
         IN  <<least>> \o Sorted(ids \ {least})

\* txt_data[first_line:last_line + 1]
RecordSlice(lines, lrdesc) == Slice(lines, lrdesc.first_line, lrdesc.last_line + 1)

DaysInMonth(year, month) ==
    IF month = 2
    THEN (IF year % 4 = 0 /\ (year % 100 # 0 \/ year % 400 = 0) THEN 29 ELSE 28)
    ELSE IF month \in {4, 6, 9, 11} THEN 30 ELSE 31

\* what datetime(year, month, day, hour, minute, second=0, ...) raises: an
\* argument below the range of a C int is OverflowError, a field out of
\* range is ValueError
DatetimeError(year, month, day, hour, minute) ==
    IF day <= NanAsIntMin \div 60 \/ hour <= NanAsIntMin \div 60 THEN "OverflowError"
    ELSE IF /\ day \in 1..DaysInMonth(year, month)
            /\ hour \in 0..23
            /\ minute \in 0..59
         THEN "none"
         ELSE "ValueError"

\* the error of the first element the list comprehension of utc_times fails on
RECURSIVE UtcTimesError(_, _, _, _, _, _)
UtcTimesError(year, month, day, hour, minute, k) ==
    IF k > Len(day) THEN "none"
    ELSE LET e == DatetimeError(year, month, day[k], hour[k], minute[k])
         IN  IF e # "none" THEN e
             ELSE UtcTimesError(year, month, day, hour, minute, k + 1)

\* not np.all(np.isnan(value)): only arrays of floats can hold not-a-number
AllNan(name, value) ==
    name \notin {"day", "hour", "minute", "level"} /\ \A i \in 1..Len(value) : value[i] = nan

\* a faulty variant: record 0100 is skipped like the other data records
HandleValueErrorSkipping(lrid, hour) == "none"

\* the except ValueError clause of the data loop: what leaves load_data, or
\* "none" when the record is skipped.  hour is the local variable of that
\* name, None while it is unbound.
HandleValueError(lrid, hour) ==
    IF lrid = LR0100
    THEN (IF hour = None THEN "UnboundLocalError" ELSE "ValueError")
    ELSE "none"

\* translate(varname) on the variable names of record 0100
translate(varname) ==
    CASE varname = "global_horizontal" -> "ghi"
      [] varname = "global_horizontal_std" -> "ghi_std"
      [] varname = "direct_normal" -> "dni"
      [] varname = "direct_normal_std" -> "dni_std"
      [] varname = "diffuse_horizontal" -> "dif"
      [] varname = "diffuse_horizontal_std" -> "dif_std"
      [] varname = "downward_longwave" -> "dlw"
      [] varname = "downward_longwave_std" -> "dlw_std"
      [] varname = "air_temperature" -> "tair"
      [] varname = "relative_humidity" -> "rh"
      [] varname = "atmospheric_pressure" -> "pressure"
      [] OTHER -> varname

IsStatistic(varname) ==
    varname \in {"global_horizontal_min", "global_horizontal_max", "direct_normal_min",
                 "direct_normal_max", "diffuse_horizontal_min", "diffuse_horizontal_max",
                 "downward_longwave_min", "downward_longwave_max"}

\* the dictionary comprehension that drops the arrays holding nothing but
\* not-a-number
Kept(contents) ==
    [name \in {n \in DOMAIN contents : ~AllNan(n, contents[n])} |-> contents[name]]

\* the end of the try block: the list of datetimes raised error, or the
\* record is stored under its id with its times
StoreRecord(lrid, bound, lrcontents, error) ==
    IF error = "ValueError"
    THEN [locals |-> bound, raised |-> HandleValueError(lrid, bound.hour)]
    ELSE IF error # "none"
    THEN [locals |-> bound, raised |-> error]
    ELSE [locals |->
            [bound EXCEPT !.data =
                (lrid :> [columns |->
                            [name \in DOMAIN lrcontents \ {"day", "hour", "minute"} |->
                                lrcontents[name]],
                          utc_times |->
                            [k \in 1..Len(lrcontents["day"]) |->
                                [day |-> lrcontents["day"][k],
                                 hour |-> lrcontents["hour"][k],
                                 minute |-> lrcontents["minute"][k],
                                 second |-> 0]]]) @@ @],
          raised |-> "none"]

\* day, hour and minute are popped, which binds the local variable hour, and
\* the datetimes are built
PopTimes(lrid, lcl, lrcontents, year, month) ==
    StoreRecord(lrid, [lcl EXCEPT !.hour = Some(lrcontents["hour"])], lrcontents,
                UtcTimesError(year, month, lrcontents["day"], lrcontents["hour"],
                              lrcontents["minute"], 1))

\* the try block from the return of the decoder on
AfterParser(lrid, lcl, parsed, year, month) ==
    IF parsed.raised = "ValueError"
    THEN [locals |-> lcl, raised |-> HandleValueError(lrid, lcl.hour)]
    ELSE IF parsed.raised # "none"
    THEN [locals |-> lcl, raised |-> parsed.raised]
    ELSE PopTimes(lrid, lcl, Kept(parsed.contents), year, month)

\* one pass of the data loop over record lrid: the new locals and what the
\* pass raises out of load_data ("none" when the loop goes on)
ReadDataRecord(lrid, lines, lcl, year, month, nan_as_int) ==
    AfterParser(lrid, lcl,
                data_parsers(lrid, RecordSlice(lines, lcl.logical_records[lrid]),
                             nan_as_int),
                year, month)

\* Table A4, types of surface: the label of code i is TableA4[i]
TableA4 ==
    <<"glacier, accumulation area", "glacier, ablation area", "iceshelf", "sea ice",
      "water, river", "water, lake", "water, ocean", "desert, rock", "desert, sand",
      "desert, gravel", "concrete", "asphalt", "cultivated", "tundra", "grass", "shrub",
      "forest, evergreen", "forest, deciduous", "forest, mixed", "rock", "sand">>

\* Table A5, types of topography
TableA5 ==
    <<"flat, urban", "flat, rural", "hilly, urban", "hilly, rural", "mountain top, urban",
      "mountain top, rural", "mountain valley, urban", "mountain valley, rural">>

\* TableA4.get(metadata.get('surface_type', None), None): the label, or None
surface_type(metadata) ==
    IF "surface_type" \in DOMAIN metadata /\ metadata["surface_type"] \in DOMAIN TableA4
    THEN Some([label |-> TableA4[metadata["surface_type"]]])
    ELSE None

\* the code is looked for under two keys, then TableA5.get(code, code): the
\* label, or the code itself
topography_type(metadata) ==
    LET code == IF "topography_type" \in DOMAIN metadata
                THEN Some(metadata["topography_type"])
                ELSE IF "topograpy_type" \in DOMAIN metadata
                THEN Some(metadata["topograpy_type"])
                ELSE None
    IN  IF code = None THEN None
        ELSE IF code[1] \in DOMAIN TableA5 THEN Some([label |-> TableA5[code[1]]])
        ELSE Some([code |-> code[1]])

\* the seconds from the start of the month to the timestamp, and back
Seconds(t) == (((t.day - 1) * 24 + t.hour) * 60 + t.minute) * 60 + t.second

TimeAt(s) ==
    [day |-> (s \div 86400) + 1, hour |-> (s % 86400) \div 3600,
     minute |-> (s % 3600) \div 60, second |-> s % 60]

\* a faulty variant: the timestamps are left where they are
NotShifted(index) == index

\* index + pd.Timedelta(30, 'seconds')
Shifted(index) == [k \in 1..Len(index) |-> TimeAt(Seconds(index[k]) + 30)]

\* pd.date_range from day 1 at 00:00:30 to the last day of the month at
\* 23:59:30 every 60 seconds, kept as its two ends and its step
times_1min(year, month) ==
    [first |-> [day |-> 1, hour |-> 0, minute |-> 0, second |-> 30],
     last |-> [day |-> DaysInMonth(year, month), hour |-> 23, minute |-> 59, second |-> 30],
     freq |-> 60]

\* one column after interpolate(method='time', limit=1), drop_duplicates and
\* reindex(new_index), as the rows of new_index that hold a number: the
\* rows observed with a number, and the row one step after such a row, which
\* is filled from that number and the next observed one in proportion to
\* time, or with that number when none follows.  Values are in tenths.
Interpolated(index, column, new_index) ==
    LET valid == {k \in 1..Len(index) : column[k] # nan}
        at == {Seconds(index[k]) : k \in valid}
        ValueAt(s) == column[CHOOSE k \in valid : Seconds(index[k]) = s][1]
        filled == {s + new_index.freq : s \in at} \ at
        Fill(s) ==
            LET t0 == s - new_index.freq
                later == {t \in at : t > s}
            IN  IF later = {} THEN ValueAt(t0)
                ELSE LET t1 == CHOOSE t \in later : \A u \in later : t <= u
                     IN  ValueAt(t0) + ((ValueAt(t1) - ValueAt(t0)) * (s - t0)) \div (t1 - t0)
    IN  [t \in {TimeAt(s) : s \in {u \in at \cup filled :
                                      /\ u >= Seconds(new_index.first)
                                      /\ u <= Seconds(new_index.last)}} |->
            IF Seconds(t) \in at THEN ValueAt(Seconds(t)) ELSE Fill(Seconds(t))]

\* data.reindex(extended_index) raises ValueError when the index of data
\* holds a label twice; else the table is the one over new_index
time_interpolation(data, new_index) ==
    IF \E i, j \in 1..Len(data.index) : i # j /\ data.index[i] = data.index[j]
    THEN [raised |-> "ValueError"]
    ELSE [raised |-> "none",
          values |-> [index |-> new_index,
                      columns |-> [c \in DOMAIN data.columns |->
                                      Interpolated(data.index, data.columns[c], new_index)]]]

\* the if statement on enable_time_centering
Centered(values, a) ==
    IF a.enable_time_centering
    THEN time_interpolation([values EXCEPT !.index = Shifted(@)],
                            times_1min(a.year, a.month))
    ELSE [raised |-> "none", values |-> values]

\* what the resolver of timezones does with the coordinates of the site is
\* an input: it finds a zone, finds none, or fails
ResolvedZone ==
    [outcome |-> "zone", region |-> "Europe/Madrid", utcoffset |-> 10,
     specs |-> "CET (UTC+0100)"]

ResolverOutcomes == {ResolvedZone, [outcome |-> "nozone"], [outcome |-> "fails"]}

\* timezone_from_latlon: the zone found, None when none is found or when the
\* resolver raises
timezone_from_latlon(resolver) ==
    IF resolver.outcome = "zone" THEN Some(resolver) ELSE None

\* the end of load_data from the table of values on: the centering, then the
\* timezone, where pytz.timezone(None) raises UnknownTimeZoneError, then the
\* contents returned with the metadata and the logical records
Finished(lcl, a, centered, timezone) ==
    IF centered.raised # "none" THEN [raised |-> centered.raised]
    ELSE IF timezone = None THEN [raised |-> "UnknownTimeZoneError"]
    ELSE [raised |-> "none",
          value |-> Some([values |-> centered.values,
                          timestamp_reference |->
                              IF a.enable_time_centering THEN "center" ELSE "start",
                          surface_type |-> surface_type(lcl.metadata),
                          topography_type |-> topography_type(lcl.metadata),
                          timezone_region |-> timezone[1].region,
                          timezone |-> timezone[1].utcoffset,
                          timezone_specs |-> timezone[1].specs,
                          metadata |-> lcl.metadata,
                          logical_records |-> lcl.data])]

\* what load_data returns or raises once both loops are over, when it is
\* called with full_output=True: None without a table of values, else the
\* contents with the table built from record 0100
Assembled(lcl, a) ==
    IF LR0100 \notin DOMAIN lcl.data THEN [raised |-> "none", value |-> None]
    ELSE LET record == lcl.data[LR0100]
             variables == {name \in DOMAIN record.columns : ~IsStatistic(name)}
         IN  IF variables = {} THEN [raised |-> "none", value |-> None]
             ELSE Finished(lcl, a,
                      Centered([index |-> record.utc_times,
                                columns |->
                                   [short \in {translate(name) : name \in variables} |->
                                       record.columns[CHOOSE name \in variables :
                                                         translate(name) = short]]], a),
                      timezone_from_latlon(a.resolver))


(***************************************************************************)
(* Specification of load_data: a file made of at most one record of each   *)
(* of the ids 0003, 0100, 0300 and 1100, in ascending or descending order  *)
(* of the ids, record 0100 holding at most MaxLoadSamples samples.  The    *)
(* site is one of the list of sites, the timestamps are left uncentered    *)
(* and the full output is asked for.                                       *)
(***************************************************************************)
MaxLoadSamples == 2

LoadYear == 2021

LoadMonth == 2

\* the choices for the record of id lrid: absent, or its samples
RecordChoices(lrid) ==
    {<<>>} \cup
    {<<[lrid |-> lrid, samples |-> ss]>> :
        ss \in CASE lrid = LR0003 -> SeqsUpTo({"message"}, 1)
                 [] lrid = LR0100 ->
                        SeqsUpTo({"good", "short1", "lone", "xminute", "late"},
                                 MaxLoadSamples)
                 [] lrid = LR0300 -> {<<"single">>, <<"short">>, <<"late1">>}
                 [] lrid = LR1100 -> {<<"sonde">>, <<"late2">>}}

Reversed(seq) == [i \in 1..Len(seq) |-> seq[Len(seq) + 1 - i]]

LoadFiles ==
    LET ascending == {a \o b \o c \o d : a \in RecordChoices(LR0003),
                                        b \in RecordChoices(LR0100),
                                        c \in RecordChoices(LR0300),
                                        d \in RecordChoices(LR1100)}
    IN  ascending \cup {Reversed(f) : f \in ascending}

\* the lines of a record: the marker line, then the samples of a data record
\* or the lines of an equipment record
RecordText(record) ==
    IF record.lrid \in {LR0005, LR0006}
    THEN <<MarkerLine("C", record.lrid)>>
             \o [k \in 1..Len(record.samples) |-> EquipmentLine(record.samples[k])]
    ELSE IF record.lrid = LR0004 THEN StationLines(StationForms[record.samples[1]])
    ELSE RecordLines(record.lrid, record.samples)

\* the lines as load_data reads them: line.rstrip()
FileLines(records) ==
    LET lines == Flatten([i \in 1..Len(records) |-> RecordText(records[i])])
    IN  [i \in 1..Len(lines) |-> RStrip(lines[i])]

InitLoad ==
    /\ args \in {[records |-> f, nan_as_int |-> c, year |-> LoadYear, month |-> LoadMonth,
                   enable_time_centering |-> FALSE, full_output |-> TRUE,
                   resolver |-> ResolvedZone] :
                    f \in LoadFiles, c \in NanCastOutcomes}
    /\ txt_data = FileLines(args.records)
    /\ pc = "scan"
    /\ locals = NoResult
    /\ ret = NoResult

\* logical_records = parser.find_logical_record_bounds(txt_data); calls is
\* the log of the ids whose decoder was invoked, in the order of the calls
Scan ==
    /\ pc = "scan"
    /\ locals' = [logical_records |-> find_logical_record_bounds(txt_data),
                  todo |-> Sorted(DOMAIN find_logical_record_bounds(txt_data)),
                  metadata |-> <<>>,
                  data |-> <<>>,
                  hour |-> None,
                  calls |-> <<>>]
    /\ pc' = "metadata"
    /\ UNCHANGED <<txt_data, args, ret>>

\* a faulty variant: a decoder that raises empties the metadata read so far
UpdateMetadataOrReset(lcl, parsed) ==
    [lcl EXCEPT !.todo = Tail(@),
                !.calls = Append(@, Head(lcl.todo)),
                !.metadata = IF parsed.raised = "none" THEN parsed.contents @@ @ ELSE <<>>]

\* the try statement of the metadata loop: lrcontents, empty when the decoder
\* raised, updates the metadata
UpdateMetadata(lcl, parsed) ==
    [lcl EXCEPT !.todo = Tail(@),
                !.calls = Append(@, Head(lcl.todo)),
                !.metadata = IF parsed.raised = "none" THEN parsed.contents @@ @ ELSE @]

\* one pass of the metadata loop: a record without a decoder is passed over,
\* a decoder that raises leaves the metadata as they are
ReadMetadata ==
    /\ pc = "metadata"
    /\ locals.todo # <<>>
    /\ locals' =
         IF Head(locals.todo) \in MetadataParserIds
         THEN UpdateMetadata(
                 locals,
                 metadata_parsers(
                     Head(locals.todo),
                     RecordSlice(txt_data, locals.logical_records[Head(locals.todo)])))
         ELSE [locals EXCEPT !.todo = Tail(@)]
    /\ UNCHANGED <<txt_data, args, pc, ret>>

\* the metadata loop is over: the data loop starts over sorted(logical_records)
StartData ==
    /\ pc = "metadata"
    /\ locals.todo = <<>>
    /\ locals' = [locals EXCEPT !.todo = Sorted(DOMAIN locals.logical_records)]
    /\ pc' = "data"
    /\ UNCHANGED <<txt_data, args, ret>>

\* the outcome of a pass of the data loop: the loop goes on, or the error
\* leaves load_data
EndPass(lrid, pass) ==
    /\ locals' = [pass.locals EXCEPT
                     !.todo = Tail(@),
                     !.calls = IF lrid \in DataParserIds THEN Append(@, lrid) ELSE @]
    /\ pc' = IF pass.raised = "none" THEN "data" ELSE "return"
    /\ ret' = IF pass.raised = "none" THEN ret
              ELSE [raised |-> pass.raised, lrid |-> lrid]

\* one pass of the data loop
ReadData ==
    /\ pc = "data"
    /\ locals.todo # <<>>
    /\ EndPass(Head(locals.todo),
               IF Head(locals.todo) \in DataParserIds
               THEN ReadDataRecord(Head(locals.todo), txt_data, locals,
                                   args.year, args.month, args.nan_as_int)
               ELSE [locals |-> locals, raised |-> "none"])
    /\ UNCHANGED <<txt_data, args>>

\* the data loop is over: the table of values is built and load_data returns
Return ==
    /\ pc = "data"
    /\ locals.todo = <<>>
    /\ ret' = Assembled(locals, args)
    /\ pc' = "return"
    /\ UNCHANGED <<txt_data, args, locals>>

NextLoad == Scan \/ ReadMetadata \/ StartData \/ ReadData \/ Return

SpecLoad == InitLoad /\ [][NextLoad]_vars

(***************************************************************************)
(* load_data over files of metadata records: at most one record of each of *)
(* the ids 0003, 0005 and 0006, some of which their decoders reject, with  *)
(* or without a record 0100 and a record 0300 of one sample, in ascending  *)
(* or descending order of the ids.                                         *)
(***************************************************************************)
MetadataChoices(lrid) ==
    {<<>>} \cup
    {<<[lrid |-> lrid, samples |-> ss]>> :
        ss \in CASE lrid = LR0003 -> {<<"message">>, <<>>}
                 [] lrid = LR0005 -> {<<"change", "radiosonde">>, <<"change", "ozone">>,
                                      <<"change">>}
                 [] lrid = LR0006 -> {<<"change", "ozone">>}
                 [] lrid = LR0100 -> {<<"good">>}
                 [] lrid = LR0300 -> {<<"single">>}}

MetadataFiles ==
    LET ascending == {a \o b \o c \o d \o e : a \in MetadataChoices(LR0003),
                                             b \in MetadataChoices(LR0005),
                                             c \in MetadataChoices(LR0006),
                                             d \in MetadataChoices(LR0100),
                                             e \in MetadataChoices(LR0300)}
    IN  ascending \cup {Reversed(f) : f \in ascending}

InitLoadMetadata ==
    /\ args \in {[records |-> f, nan_as_int |-> c, year |-> LoadYear, month |-> LoadMonth,
                   enable_time_centering |-> FALSE, full_output |-> TRUE,
                   resolver |-> ResolvedZone] :
                    f \in MetadataFiles, c \in NanCastOutcomes}
    /\ txt_data = FileLines(args.records)
    /\ pc = "scan"
    /\ locals = NoResult
    /\ ret = NoResult

SpecLoadMetadata == InitLoadMetadata /\ [][NextLoad]_vars


(***************************************************************************)
(* load_data over the files of a station: with or without a record 0004,   *)
(* whose codes the tables hold or not, and with or without a record 0100   *)
(* of at most MaxLoadSamples samples, two of which may bear the same       *)
(* minute, in either order; the timestamps are centered or not, and the    *)
(* resolver of timezones finds a zone, finds none, or fails.               *)
(***************************************************************************)
SiteFiles ==
    LET ascending ==
            {a \o b : a \in {<<>>} \cup {<<[lrid |-> LR0004, samples |-> <<f>>]>> :
                                            f \in DOMAIN StationForms},
                      b \in {<<>>} \cup {<<[lrid |-> LR0100, samples |-> ss]>> :
                                            ss \in SeqsUpTo({"good", "again"},
                                                            MaxLoadSamples)}}
    IN  ascending \cup {Reversed(f) : f \in ascending}

InitLoadSite ==
    /\ args \in [records : SiteFiles, nan_as_int : NanCastOutcomes, year : {LoadYear},
                 month : {LoadMonth}, enable_time_centering : BOOLEAN,
                 full_output : {TRUE}, resolver : ResolverOutcomes]
    /\ txt_data = FileLines(args.records)
    /\ pc = "scan"
    /\ locals = NoResult
    /\ ret = NoResult

SpecLoadSite == InitLoadSite /\ [][NextLoad]_vars


(***************************************************************************)
(* load_data over files whose record 0100 holds samples of chosen minutes  *)
(* of day 1, in any order and with repeats: a sample is whole (every       *)
(* measurement is a number that grows with the minute), partial (the       *)
(* global irradiance is the missing value) or missing (every measurement   *)
(* is its missing value).  Record 0100 is there or not, with or without a  *)
(* record 0003 before it; the timestamps are centered or not.              *)
(***************************************************************************)
MaxGridSamples == 2

GridMinutes == {0, 1, 3}

GridForms == {"whole", "partial", "missing"}

\* the two lines of a sample of record 0100
GridSample(sample) ==
    LET v == Str(10 * (sample.minute + 1))
        m9 == <<"-", "9", "9", "9">>
        m99 == <<"-", "9", "9", ".", "9">>
        missing == <<m9, m99, m9, m9>>
        whole == <<v, v, v, v>>
        first == IF sample.form = "whole" THEN whole
                 ELSE IF sample.form = "partial" THEN <<m9, v, v, v>>
                 ELSE missing
        others == IF sample.form = "missing" THEN missing ELSE whole
        last == IF sample.form = "missing" THEN <<m99, m99, m9>> ELSE <<v, v, v>>
    IN  <<Join(<<<<"1">>, Str(sample.minute)>> \o first \o others),
          Join(others \o others \o last)>>

GridLines(a) ==
    (IF a.message THEN RecordLines(LR0003, <<"message">>) ELSE <<>>)
    \o (IF a.primary
        THEN <<MarkerLine("C", LR0100)>>
                 \o Flatten([k \in 1..Len(a.samples) |-> GridSample(a.samples[k])])
        ELSE <<>>)

InitLoadGrid ==
    /\ args \in [samples : SeqsUpTo([minute : GridMinutes, form : GridForms],
                                    MaxGridSamples),
                 primary : {TRUE}, message : BOOLEAN,
                 nan_as_int : NanCastOutcomes, year : {LoadYear}, month : {LoadMonth},
                 enable_time_centering : BOOLEAN, full_output : {TRUE},
                 resolver : {ResolvedZone}]
          \cup [samples : {<<>>}, primary : {FALSE}, message : BOOLEAN,
                nan_as_int : NanCastOutcomes, year : {LoadYear}, month : {LoadMonth},
                enable_time_centering : BOOLEAN, full_output : {TRUE},
                resolver : {ResolvedZone}]
    /\ txt_data = [i \in 1..Len(GridLines(args)) |-> RStrip(GridLines(args)[i])]
    /\ pc = "scan"
    /\ locals = NoResult
    /\ ret = NoResult

SpecLoadGrid == InitLoadGrid /\ [][NextLoad]_vars


(***************************************************************************)
(* Properties of load_data over the files of SpecLoad.                     *)
(***************************************************************************)
Loaded == pc = "return"

HasRecord(lrid) == \E i \in 1..Len(args.records) : args.records[i].lrid = lrid

SamplesOf(lrid) ==
    args.records[CHOOSE i \in 1..Len(args.records) : args.records[i].lrid = lrid].samples

\* every token of every sample of the file reads as a float
AllTokensAreFloats ==
    \A i \in 1..Len(args.records) : \A k \in 1..Len(args.records[i].samples) :
        args.records[i].samples[k] \notin {"xminute", "xminute1"}

Malformed == {"short1", "lone"}

GoodSamples(samples) == {k \in 1..Len(samples) : samples[k] = "good"}

\* C7: a malformed sample of record 0100 (a line with a wrong count of
\* tokens, or a sample without its second line), wherever it stands among
\* well-formed samples, does not make load_data raise, and load_data
\* returns the table of the remaining samples.
C7_MalformedSampleNeverFailsThePeriod ==
    (/\ Loaded
     /\ HasRecord(LR0100)
     /\ AllTokensAreFloats
     /\ \E k \in 1..Len(SamplesOf(LR0100)) : SamplesOf(LR0100)[k] \in Malformed
     /\ GoodSamples(SamplesOf(LR0100)) # {})
    => /\ ret.raised = "none"
       /\ ret.value # None
       /\ Len(ret.value[1].values.index) = Cardinality(GoodSamples(SamplesOf(LR0100)))

\* C9: when record 0100 is present and its span holds the marker line alone
\* or only pairs with a miscounted line, load_data does not raise and
\* returns contents with the metadata and without a table of values.
C9_EmptyPrimaryRecordYieldsMetadataOnly ==
    (/\ Loaded
     /\ HasRecord(LR0100)
     /\ AllTokensAreFloats
     /\ \A k \in 1..Len(SamplesOf(LR0100)) : SamplesOf(LR0100)[k] = "short1")
    => /\ ret.raised = "none"
       /\ ret.value # None
       /\ "metadata" \in DOMAIN ret.value[1]
       /\ "values" \notin DOMAIN ret.value[1]

(***************************************************************************)
(* Properties of the metadata loop over the files of SpecLoadMetadata.     *)
(***************************************************************************)
\* the records whose lines their decoder accepts
Decodes(record) ==
    \/ record.lrid = LR0003 /\ record.samples = <<"message">>
    \/ record.lrid = LR0005 /\ record.samples = <<"change", "radiosonde">>

\* what the lines of such a record say, attribute by attribute
ExpectedAttributes(record) ==
    IF record.lrid = LR0003
    THEN [message |-> <<"1", " ", "1", " ", "1">>]
    ELSE [radiosonde_changed_on |-> [day |-> Some(1), hour |-> None, minute |-> Some(0)],
          radiosonde_operating |-> TRUE,
          radiosonde_manufacturer |-> <<"V">>,
          radiosonde_location |-> <<"L">>,
          radiosonde_distance_km |-> 12,
          radiosonde_hUTC_1st_launch |-> Some(0),
          radiosonde_hUTC_2nd_launch |-> Some(12),
          radiosonde_hUTC_3rd_launch |-> None,
          radiosonde_hUTC_4th_launch |-> None,
          radiosonde_id |-> <<"R", "1">>,
          radiosonde_remarks |-> <<>>]

\* the records the metadata loop has been over
PassedOver ==
    {i \in 1..Len(args.records) :
        pc # "metadata" \/ args.records[i].lrid \notin Range(locals.todo)}

\* the metadata are those of the records in the set that decode, no more
MetadataAreThoseOf(metadata, records) ==
    /\ DOMAIN metadata =
          UNION {DOMAIN ExpectedAttributes(args.records[i]) :
                    i \in {j \in records : Decodes(args.records[j])}}
    /\ \A i \in records :
          Decodes(args.records[i]) =>
              \A name \in DOMAIN ExpectedAttributes(args.records[i]) :
                  metadata[name] = ExpectedAttributes(args.records[i])[name]

\* C12: a metadata record whose decoder raises is skipped as a whole.  At
\* every point of the call the metadata hold exactly the attributes of the
\* records passed over so far that decode, as if the others were absent,
\* and load_data goes on to its end without raising.
C12_FailingMetadataRecordIsSkipped ==
    /\ pc \in {"metadata", "data", "return"} =>
          MetadataAreThoseOf(locals.metadata, PassedOver)
    /\ pc = "return" =>
          /\ ret.raised = "none"
          /\ ret.value # None =>
                MetadataAreThoseOf(ret.value[1].metadata, 1..Len(args.records))

\* a file whose record 0005 fails on its second line and whose record 0006
\* fails on its remarks, next to a message that decodes
C12_Witness ==
    /\ pc = "return"
    /\ \E i \in 1..Len(args.records) :
          args.records[i] = [lrid |-> LR0005, samples |-> <<"change", "ozone">>]
    /\ HasRecord(LR0006)
    /\ HasRecord(LR0003)
    /\ ret.raised = "none"
    /\ ret.value # None
    /\ DOMAIN ret.value[1].metadata = {"message"}

(***************************************************************************)
(* Properties of the data loop for samples with an hour beyond 23.         *)
(***************************************************************************)
Holds(lrid, form) ==
    HasRecord(lrid) /\ \E k \in 1..Len(SamplesOf(lrid)) : SamplesOf(lrid)[k] = form

\* record 0100 holds well-formed samples only, at least one of them
PrimaryRecordIsSound ==
    /\ HasRecord(LR0100)
    /\ SamplesOf(LR0100) # <<>>
    /\ \A k \in 1..Len(SamplesOf(LR0100)) : SamplesOf(LR0100)[k] = "good"

C13_WitnessSkipped ==
    /\ Loaded
    /\ PrimaryRecordIsSound
    /\ Holds(LR0300, "late1")
    /\ Holds(LR1100, "sonde")
    /\ ret.raised = "none"
    /\ ret.value # None
    /\ DOMAIN ret.value[1].logical_records = {LR0100, LR1100}

(***************************************************************************)
(* Specification of the sentinels: a record of at most MaxSentinelSamples  *)
(* well-formed samples handed to the decoder of its record id; in one of   *)
(* the samples the token of one measurement column is one of the five      *)
(* sentinel literals of the format, every other value token is the number  *)
(* of the sample.                                                          *)
(***************************************************************************)
MaxSentinelSamples == 2

SentinelTexts ==
    {<<"-", "9", "9", "9">>, <<"-", "9", "9">>, <<"-", "9", "9", ".", "9">>,
     <<"-", "9", "9", "9", ".", "9">>, <<"-", "9", ".", "9">>}

\* the variable names of each line of a sample of the record
LineNames(lrid) ==
    CASE lrid = LR0100 -> <<Names0100a, Names0100b>>
      [] lrid = LR0300 -> <<Names0300>>
      [] lrid = LR1100 -> <<Names1100>>

MeasurementNames(lrid) ==
    UNION {Range(LineNames(lrid)[l]) : l \in 1..Len(LineNames(lrid))}
        \ {"day", "minute", "level"}

\* the lines of sample k: day 1, minute k, level k, and k in every column
\* but the one called name, which holds the text
SentinelSample(lrid, k, name, text) ==
    [l \in 1..Len(LineNames(lrid)) |->
        Join([j \in 1..Len(LineNames(lrid)[l]) |->
                 IF LineNames(lrid)[l][j] = name THEN text
                 ELSE IF LineNames(lrid)[l][j] = "day" THEN <<"1">>
                 ELSE Str(k)])]

SentinelRecord(a) ==
    <<MarkerLine("C", a.lrid)>> \o
    Flatten([k \in 1..a.n |->
                SentinelSample(a.lrid, k, IF k = a.at THEN a.name ELSE "none", a.text)])

InitSentinel ==
    /\ args \in UNION {[lrid : {id}, name : MeasurementNames(id), text : SentinelTexts,
                        n : 1..MaxSentinelSamples, at : 1..MaxSentinelSamples,
                        nan_as_int : NanCastOutcomes] : id \in DataParserIds}
    /\ args.at <= args.n
    /\ txt_data = SentinelRecord(args)
    /\ pc = "call"
    /\ locals = NoResult
    /\ ret = NoResult

SpecSentinel == InitSentinel /\ [][NextData]_vars


(***************************************************************************)
(* Properties of the sentinels.                                            *)
(***************************************************************************)
\* the five sentinel literals as numbers, in tenths
Tenths(text) ==
    CASE text = <<"-", "9", "9", "9">> -> -9990
      [] text = <<"-", "9", "9">> -> -990
      [] text = <<"-", "9", "9", ".", "9">> -> -999
      [] text = <<"-", "9", "9", "9", ".", "9">> -> -9999
      [] text = <<"-", "9", ".", "9">> -> -99

IsStd(name) ==
    name \in {"global_horizontal_std", "direct_normal_std", "diffuse_horizontal_std",
              "downward_longwave_std", "reflected_std", "upward_longwave_std",
              "net_radiation_std"}

\* the sentinel the format gives each column: -999 for the integer columns
\* of records 0100 and 0300 and -99.9 for their columns with one decimal;
\* in record 1100 one sentinel per variable
OwnSentinel(lrid, name) ==
    IF lrid = LR1100
    THEN CASE name \in {"pressure_hPa", "height_m"} -> -9990
           [] name \in {"wind_direction_azimuth", "wind_speed_ms"} -> -990
           [] name = "air_temperature_degC" -> -999
           [] name = "dew_point_degC" -> -9999
           [] name = "ozone_concentration" -> -99
    ELSE IF IsStd(name) \/ name \in {"air_temperature", "relative_humidity"} THEN -999
    ELSE -9990

Sampled == pc = "return" /\ ret.raised = "none"

\* what the decoder returns for the token that was set to a sentinel literal
DecodedToken == ret.contents[args.name][args.at]

\* C14: in records 0100, 0300 and 1100 a token equal to the sentinel of its
\* column is decoded as not-a-number, no decoded array of a measurement
\* column holds the sentinel of the column, and in record 1100 a token that
\* is the sentinel of another variable is decoded as the number it writes.
C14_OwnSentinelDecodesAsMissing ==
    pc = "return" =>
        /\ ret.raised = "none"
        /\ \A name \in MeasurementNames(args.lrid) :
              /\ Len(ret.contents[name]) = args.n
              /\ \A k \in 1..args.n :
                    ret.contents[name][k] # Some(OwnSentinel(args.lrid, name))
        /\ Tenths(args.text) = OwnSentinel(args.lrid, args.name) => DecodedToken = nan
        /\ (args.lrid = LR1100 /\ Tenths(args.text) # OwnSentinel(args.lrid, args.name))
              => DecodedToken = Some(Tenths(args.text))

\* the air temperature of the second level of record 1100 is -99.9
C14_Witness ==
    /\ Sampled
    /\ args.lrid = LR1100
    /\ args.name = "air_temperature_degC"
    /\ args.text = <<"-", "9", "9", ".", "9">>
    /\ args.n = 2
    /\ args.at = 2
    /\ DecodedToken = nan
    /\ ret.contents["air_temperature_degC"][1] = Some(10)

Meteorology == {"air_temperature", "relative_humidity", "atmospheric_pressure"}

In0100(names, text) ==
    /\ Sampled
    /\ args.lrid = LR0100
    /\ args.name \in names
    /\ args.text = text

\* C15 as stated: in record 0100 the sentinel -999 marks missing values in
\* the mean, min and max channels of the four radiation components, and the
\* sentinel -99.9 marks missing values in the standard-deviation channels
\* and in air temperature, relative humidity and atmospheric pressure.
C15_PressureMissingIsMinus99p9 ==
    /\ In0100(Missing999InRadiation, <<"-", "9", "9", "9">>) => DecodedToken = nan
    /\ In0100({n \in MeasurementNames(LR0100) : IsStd(n)} \cup Meteorology,
              <<"-", "9", "9", ".", "9">>) => DecodedToken = nan

\* C15: in record 0100 the sentinel -999 marks missing values in the mean,
\* min and max channels of the four radiation components and in atmospheric
\* pressure, and the sentinel -99.9 marks missing values in the
\* standard-deviation channels, air temperature and relative humidity; a
\* channel holding the sentinel of the other group keeps it as a number.
C15_PressureMissingIsMinus999 ==
    /\ In0100(Missing999InRadiation \cup {"atmospheric_pressure"}, <<"-", "9", "9", "9">>)
          => DecodedToken = nan
    /\ In0100(Missing999InRadiation \cup {"atmospheric_pressure"},
              <<"-", "9", "9", ".", "9">>) => DecodedToken = Some(-999)
    /\ In0100({n \in MeasurementNames(LR0100) : IsStd(n)}
                  \cup {"air_temperature", "relative_humidity"},
              <<"-", "9", "9", ".", "9">>) => DecodedToken = nan
    /\ In0100({n \in MeasurementNames(LR0100) : IsStd(n)}
                  \cup {"air_temperature", "relative_humidity"},
              <<"-", "9", "9", "9">>) => DecodedToken = Some(-9990)

\* an atmospheric pressure of -999 is decoded as missing
C15_Witness ==
    /\ In0100({"atmospheric_pressure"}, <<"-", "9", "9", "9">>)
    /\ DecodedToken = nan

(***************************************************************************)
(* Properties of load_data over the files of SpecLoadSite.                 *)
(***************************************************************************)
\* the station of the file, when its record 0004 decodes
Station == StationForms[SamplesOf(LR0004)[1]]

HasStation == HasRecord(LR0004) /\ SamplesOf(LR0004) # <<"cut">>

Returns == Loaded /\ ret.raised = "none" /\ ret.value # None

LabelOrCode(table, code) ==
    IF code \in DOMAIN table THEN Some([label |-> table[code]]) ELSE Some([code |-> code])

\* C17 as stated: in the result of load_data surface_type and
\* topography_type are the labels of the codes of the station in Table A4
\* and Table A5, and a code that its table does not hold is passed through
\* unchanged.
C17_UnknownCodesPassThrough ==
    (Returns /\ HasStation) =>
        /\ ret.value[1].surface_type = LabelOrCode(TableA4, int(Station.surface))
        /\ ret.value[1].topography_type = LabelOrCode(TableA5, int(Station.topography))

\* what holds instead: the topography code is passed through, the surface
\* code that Table A4 does not hold gives None
C17_OnlyTopographyPassesThrough ==
    (Returns /\ HasStation) =>
        /\ ret.value[1].surface_type =
              (IF int(Station.surface) \in DOMAIN TableA4
               THEN Some([label |-> TableA4[int(Station.surface)]]) ELSE None)
        /\ ret.value[1].topography_type = LabelOrCode(TableA5, int(Station.topography))

\* C18 as stated: when the resolver of timezones fails or finds no zone for
\* the coordinates of the site, load_data does not raise and returns its
\* result.
C18_UnresolvedTimezoneIsLeftUnset ==
    (/\ Loaded
     /\ args.resolver.outcome # "zone"
     /\ ~args.enable_time_centering
     /\ PrimaryRecordIsSound)
    => Returns

\* what holds instead: with a table of values and no zone load_data raises
C18_UnresolvedTimezoneRaises ==
    (Loaded /\ args.resolver.outcome # "zone" /\ PrimaryRecordIsSound)
    => ret = [raised |-> "UnknownTimeZoneError"]

Rows(index) == (Seconds(index.last) - Seconds(index.first)) \div index.freq + 1

\* C20: when load_data returns a table of values with time centering
\* enabled, the index of the table is the grid that starts on day 1 at
\* 00:00:30, ends on the last day of the month at 23:59:30 and steps by 60
\* seconds, days_in_month x 1440 rows whichever minutes were observed, and
\* the value observed at a raw timestamp is found 30 seconds later; with
\* centering disabled the index is the list of the raw timestamps, at second
\* 0.
C20_CenteredIndexIsTheMinuteGrid ==
    Returns =>
        LET values == ret.value[1].values
            record == ret.value[1].logical_records[LR0100]
        IN  IF args.enable_time_centering
            THEN /\ values.index.first = [day |-> 1, hour |-> 0, minute |-> 0, second |-> 30]
                 /\ values.index.last =
                       [day |-> DaysInMonth(args.year, args.month),
                        hour |-> 23, minute |-> 59, second |-> 30]
                 /\ values.index.freq = 60
                 /\ Rows(values.index) = DaysInMonth(args.year, args.month) * 1440
                 /\ \A k \in 1..Len(record.utc_times) :
                       /\ record.utc_times[k].second = 0
                       /\ [record.utc_times[k] EXCEPT !.second = 30]
                             \in DOMAIN values.columns.ghi
                       /\ values.columns.ghi[[record.utc_times[k] EXCEPT !.second = 30]]
                             = record.columns.global_horizontal[k][1]
                 /\ \A t \in DOMAIN values.columns.ghi :
                       /\ t.second = 30
                       /\ Seconds(t) >= Seconds(values.index.first)
                       /\ Seconds(t) <= Seconds(values.index.last)
                 /\ ret.value[1].timestamp_reference = "center"
            ELSE /\ values.index = record.utc_times
                 /\ \A k \in 1..Len(values.index) : values.index[k].second = 0
                 /\ ret.value[1].timestamp_reference = "start"

\* two samples at minutes 1 and 3 of day 1, centered: the row of 00:02:30 is
\* filled between them
C20_Witness ==
    /\ Returns
    /\ args.enable_time_centering
    /\ SamplesOf(LR0100) = <<"good", "good">>
    /\ Rows(ret.value[1].values.index) = 40320
    /\ DOMAIN ret.value[1].values.columns.ghi =
          {[day |-> 1, hour |-> 0, minute |-> m, second |-> 30] : m \in 1..4}
    /\ ret.value[1].values.columns.ghi[[day |-> 1, hour |-> 0, minute |-> 2, second |-> 30]]
          = 20

\* the same minute observed twice: with centering load_data raises
C20_RepeatedMinuteRaises ==
    (/\ Loaded
     /\ args.enable_time_centering
     /\ HasRecord(LR0100)
     /\ SamplesOf(LR0100) \in {<<"good", "again">>, <<"again", "again">>})
    => ret = [raised |-> "ValueError"]

(***************************************************************************)
(* Properties of the order of the calls of the decoders, over the files of *)
(* SpecLoadMetadata.                                                       *)
(***************************************************************************)
IsAscending(ids) ==
    \A i, j \in 1..Len(ids) : i < j => DigitsValue(ids[i]) < DigitsValue(ids[j])

Present == {args.records[i].lrid : i \in 1..Len(args.records)}

CallsOf(ids) == SelectSeq(locals.calls, LAMBDA id : id \in ids)

\* C19: in one call of load_data the decoders of the metadata records are
\* all invoked, each returning or raising, before the decoder of any data
\* record is, whatever the order of the records in the file, and in each of
\* the two groups the records are taken in ascending order of their ids.
C19_MetadataBeforeDataInAscendingOrder ==
    pc \in {"metadata", "data", "return"} =>
        /\ locals.calls = CallsOf(MetadataParserIds) \o CallsOf(DataParserIds)
        /\ IsAscending(CallsOf(MetadataParserIds))
        /\ IsAscending(CallsOf(DataParserIds))
        /\ CallsOf(DataParserIds) # <<>> =>
              Range(CallsOf(MetadataParserIds)) = Present \cap MetadataParserIds
        /\ pc = "metadata" => CallsOf(DataParserIds) = <<>>
        /\ pc = "data" => Range(CallsOf(MetadataParserIds)) = Present \cap MetadataParserIds
        /\ (pc = "return" /\ ret.raised = "none") =>
              Range(CallsOf(DataParserIds)) = Present \cap DataParserIds

\* a file that holds its records from 0300 down to 0003
C19_Witness ==
    /\ pc = "return"
    /\ Len(args.records) = 5
    /\ args.records[1].lrid = LR0300
    /\ args.records[5].lrid = LR0003
    /\ locals.calls = <<LR0003, LR0005, LR0006, LR0100, LR0300>>


(***************************************************************************)
(* Properties of load_data over the files of SpecLoadGrid.                 *)
(***************************************************************************)
\* load_data has returned a table of values
HasTable == pc = "return" /\ ret.raised = "none" /\ ret.value # None

Table == ret.value[1].values

\* the minutes of day 1 that a sample of the file bears
Observed == {args.samples[k].minute : k \in 1..Len(args.samples)}

FirstObserved == CHOOSE m \in Observed : \A n \in Observed : m <= n

LastObserved == CHOOSE m \in Observed : \A n \in Observed : m >= n

\* the minutes of day 1 up to three steps after the last sample
GridMinutesAround == 0..(LastObserved + 3)

\* the row of the centered grid for minute m of day 1
GridRow(m) == [day |-> 1, hour |-> m \div 60, minute |-> m % 60, second |-> 30]

\* minute m lies within a run of two or more minutes without a sample
\* between two samples
InWideGap(m) ==
    /\ m \notin Observed
    /\ FirstObserved < m
    /\ m < LastObserved
    /\ (m - 1 \notin Observed \/ m + 1 \notin Observed)

MissingInEveryColumn(m) ==
    \A c \in DOMAIN Table.columns : GridRow(m) \notin DOMAIN Table.columns[c]

\* C21: in the centered table, a grid minute within a run of two or more
\* consecutive minutes without a sample, or more than one step before the
\* first or after the last sample, is missing in every column.
C21_NoFillInWiderGaps ==
    (HasTable /\ args.enable_time_centering)
    => \A m \in GridMinutesAround :
          (InWideGap(m) \/ m < FirstObserved - 1 \/ m > LastObserved + 1)
          => MissingInEveryColumn(m)

\* what holds instead: a row of the centered table holds a number in a
\* column only if the file gives that column a number at that minute or at
\* the minute one step before, so the first minute of every run of minutes
\* without a sample is filled, however long the run is, and no other
C21_FillsTheStepAfterEveryValue ==
    (HasTable /\ args.enable_time_centering)
    => \A c \in DOMAIN Table.columns : \A m \in GridMinutesAround :
          LET Valued(n) == \E k \in 1..Len(args.samples) :
                              /\ args.samples[k].minute = n
                              /\ \/ args.samples[k].form = "whole"
                                 \/ args.samples[k].form = "partial" /\ c # "ghi"
          IN  GridRow(m) \in DOMAIN Table.columns[c] <=> (Valued(m) \/ Valued(m - 1))

\* samples at minutes 0 and 3: minute 1, the first of a gap of two, is filled
C21_FilledInWideGap ==
    /\ HasTable
    /\ args.enable_time_centering
    /\ Observed = {0, 3}
    /\ InWideGap(1)
    /\ ~MissingInEveryColumn(1)
    /\ MissingInEveryColumn(2)

\* record 0100 is not in the file, or every measurement of every sample of
\* it is the missing value
SoftFailure ==
    /\ pc = "return"
    /\ \/ ~args.primary
       \/ /\ args.samples # <<>>
          /\ \A k \in 1..Len(args.samples) : args.samples[k].form = "missing"

\* C22: when record 0100 is absent, or decodes with every measurement
\* column entirely missing, load_data raises nothing and returns a result
\* that carries the metadata read from the file and no table of values.
C22_SoftFailureYieldsMetadataOnly ==
    SoftFailure
    => /\ ret.raised = "none"
       /\ ret.value # None
       /\ ret.value[1].metadata = locals.metadata

\* what holds instead: load_data raises nothing and returns None, with or
\* without metadata read from the file
C22_SoftFailureYieldsNone ==
    SoftFailure => ret = [raised |-> "none", value |-> None]

\* the message of record 0003 was read and is not returned
C22_MetadataLost ==
    /\ SoftFailure
    /\ args.primary
    /\ args.message
    /\ "message" \in DOMAIN locals.metadata
    /\ ret.value = None

\* the rows of the table bear strictly increasing timestamps
StrictlyIncreasing(index) ==
    \A i, j \in 1..Len(index) : i < j => Seconds(index[i]) < Seconds(index[j])

\* C23: the table of values built from record 0100 without centering has a
\* strictly increasing index with exactly one row for each minute that a
\* sample of the file bears, whatever the order of the samples in the file
\* and also when two samples bear the same minute.
C23_OneRowPerMinuteInIncreasingOrder ==
    (HasTable /\ ~args.enable_time_centering)
    => /\ StrictlyIncreasing(Table.index)
       /\ Len(Table.index) = Cardinality(Observed)
       /\ {Seconds(Table.index[k]) : k \in 1..Len(Table.index)}
             = {60 * m : m \in Observed}

\* what holds instead: the table has one row for each sample, in the order
\* of the file
C23_OneRowPerSampleInFileOrder ==
    (HasTable /\ ~args.enable_time_centering)
    => /\ Len(Table.index) = Len(args.samples)
       /\ \A k \in 1..Len(args.samples) :
             Table.index[k] = [day |-> 1, hour |-> 0,
                               minute |-> args.samples[k].minute, second |-> 0]

\* minute 3 before minute 1 in the file and in the table
C23_RowsOutOfOrder ==
    /\ HasTable
    /\ ~args.enable_time_centering
    /\ Len(args.samples) = 2
    /\ args.samples[1].minute = 3
    /\ args.samples[2].minute = 1
    /\ Table.index[1].minute = 3
    /\ Table.index[2].minute = 1

\* two samples of minute 1 in the file, two rows of minute 1 in the table
C23_RowsRepeated ==
    /\ HasTable
    /\ ~args.enable_time_centering
    /\ Len(args.samples) = 2
    /\ Observed = {1}
    /\ Len(Table.index) = 2
    /\ Table.index[1] = Table.index[2]

(***************************************************************************)
(* parse_logical_record_0001 and the table of quantities, Table A3.  The   *)
(* entries of the table are dictionaries, objects that an assignment binds *)
(* without copying: the state keeps the table as the caller's program sees *)
(* it, and a decoded record holds, for each quantity, the reference the    *)
(* decoder stored.                                                         *)
(***************************************************************************)
TableA3 ==
    LET Quantity(description, unit) == [description |-> description, unit |-> unit]
        At(description, unit, heigh) ==
            [description |-> description, unit |-> unit, heigh |-> heigh]
    IN  (2 :> Quantity("global 2 (pyranometer)", "Wm-2"))
        @@ (3 :> Quantity("direct", "Wm-2"))
        @@ (4 :> Quantity("diffuse sky", "Wm-2"))
        @@ (5 :> Quantity("long-wave downward", "Wm-2"))
        @@ (21 :> Quantity("air temperature", "degC"))
        @@ (22 :> Quantity("relative humidity", "%"))
        @@ (23 :> Quantity("pressure", "hPa"))
        @@ (121 :> Quantity("uv-a-global", "Wm-2"))
        @@ (122 :> Quantity("uv-b-direct", "Wm-2"))
        @@ (123 :> Quantity("uv-b-global", "Wm-2"))
        @@ (124 :> Quantity("uv-b-diffuse", "Wm-2"))
        @@ (125 :> Quantity("uv-b-reflected", "Wm-2"))
        @@ (131 :> Quantity("short-wave reflected", "Wm-2"))
        @@ (132 :> Quantity("long-wave upward", "Wm-2"))
        @@ (141 :> Quantity("net radiation (net radiometer)", "Wm-2"))
        @@ (104 :> Quantity("short-wave spectral band 1", ""))
        @@ (112 :> Quantity("short-wave spectral band 3", ""))
        @@ (301 :> Quantity("total cloud amount with instrument", "%"))
        @@ (302 :> Quantity("cloud base height with instrument", "m"))
        @@ (303 :> Quantity("cloud liquid water", "mm"))
        @@ (2000700 :> At("global 2 (pyranometer)", "Wm-2", 700))
        @@ (2001000 :> At("global 2 (pyranometer)", "Wm-2", 1000))
        @@ (131000700 :> At("short-wave reflected", "Wm-2", 700))
        @@ (131001000 :> At("short-wave reflected", "Wm-2", 1000))
        @@ (132000700 :> At("long-wave upward", "Wm-2", 700))
        @@ (132001000 :> At("long-wave upward", "Wm-2", 1000))
        @@ (5000700 :> At("long-wave downward", "Wm-2", 700))
        @@ (5001000 :> At("long-wave downward", "Wm-2", 1000))
        @@ (21000700 :> At("air temperature", "degC", 700))
        @@ (21001000 :> At("air temperature", "degC", 1000))
        @@ (22000700 :> At("relative humidity", "%", 700))
        @@ (22001000 :> At("relative humidity", "%", 1000))
        @@ (131003000 :> At("short-wave reflected", "Wm-2", 3000))
        @@ (132003000 :> At("long-wave upward", "Wm-2", 3000))

PatternStation == <<Sp, Grp(2), Sp, Grp(2), Sp, Grp(4), Sp, Grp(2)>>

PatternQuantities ==
    <<Sp, Grp(9), Sp, Grp(9), Sp, Grp(9), Sp, Grp(9),
      Sp, Grp(9), Sp, Grp(9), Sp, Grp(9), Sp, Grp(9)>>

\* the object that the expression TableA3[qty_id] evaluates to: the entry of
\* the table itself
EntryOfTable(qty_id) == [object |-> "TableA3", key |-> qty_id]

\* the loop over the second and following lines: quantity_measured, or the
\* error that leaves the decoder.  A quantity the table does not hold is
\* KeyError.
RECURSIVE QuantityLines(_, _, _)
QuantityLines(txt, nline, quantity_measured) ==
    IF nline > Len(txt) THEN [raised |-> "none", quantity_measured |-> quantity_measured]
    ELSE LET m == parse(txt[nline], PatternQuantities, "int", None)
         IN  IF m.raised # "none" THEN m
             ELSE LET ids == {m.value[i] : i \in 1..Len(m.value)} \ {0 - 1}
                  IN  IF \E qty_id \in ids : qty_id \notin DOMAIN TableA3
                      THEN [raised |-> "KeyError"]
                      ELSE QuantityLines(txt, nline + 1,
                               [qty_id \in ids |-> EntryOfTable(qty_id)]
                                  @@ quantity_measured)

\* the dictionary of the first data line
StationVersion(m) ==
    [station_id |-> m[1], month |-> m[2], year |-> m[3], data_version |-> m[4]]

parse_logical_record_0001(txt) ==
    IF Len(txt) < 2 THEN [raised |-> "IndexError"]
    ELSE LET m == parse(txt[2], PatternStation, "int", None)
         IN  IF m.raised # "none" THEN m
             ELSE LET loop == QuantityLines(txt, 3, <<>>)
                  IN  IF loop.raised # "none" THEN loop
                      ELSE [raised |-> "none",
                            contents |->
                               [quantity_measured |-> loop.quantity_measured]
                               @@ StationVersion(m.value)]

(***************************************************************************)
(* Specification of a caller of parse_logical_record_0001: it decodes the  *)
(* same record at most MaxCalls times and, between calls, assigns to a     *)
(* field of an entry of quantity_measured of a result it holds, or puts a  *)
(* dictionary of its own in the place of an entry.                         *)
(***************************************************************************)
MaxCalls == 2

MaxAssignments == 2

LR0001 == <<"0", "0", "0", "1">>

\* a line of eight quantities, nine characters each
QuantityLine(ids) ==
    Flatten([i \in 1..8 |->
                LET text == IF i <= Len(ids) THEN ids[i] ELSE <<"-", "1">>
                IN  <<" ">> \o Repeat(" ", 9 - Len(text)) \o text])

QuantityLineChoices ==
    {<<<<"2">>, <<"3">>, <<"2", "1">>>>,
     <<<<"2">>, <<"2", "0", "0", "0", "7", "0", "0">>>>,
     <<<<"4">>, <<"9", "9">>>>,
     <<<<"5">>, <<"x">>>>}

Lines0001(quantities) ==
    <<MarkerLine("U", LR0001), <<" ", "2", "1", " ", " ", "2", " ", "2", "0", "2", "1", " ", " ", "1">>>>
    \o [k \in 1..Len(quantities) |-> QuantityLine(quantities[k])]

Init0001 ==
    /\ args \in [quantities : SeqsUpTo(QuantityLineChoices, 2)]
    /\ txt_data = Lines0001(args.quantities)
    /\ pc = "caller"
    /\ locals = [TableA3 |-> TableA3, results |-> <<>>, assigned |-> {}, assignments |-> 0]
    /\ ret = NoResult

\* result = parse_logical_record_0001(txt_data)
Call0001 ==
    /\ pc = "caller"
    /\ Len(locals.results) < MaxCalls
    /\ ret' = parse_logical_record_0001(txt_data)
    /\ locals' = [locals EXCEPT !.results = Append(@, parse_logical_record_0001(txt_data))]
    /\ UNCHANGED <<txt_data, args, pc>>

\* result['quantity_measured'][qty_id][field] = 'changed': the assignment
\* goes to the object the entry refers to
AssignField ==
    /\ pc = "caller"
    /\ locals.assignments < MaxAssignments
    /\ \E k \in 1..Len(locals.results) :
          /\ locals.results[k].raised = "none"
          /\ \E qty_id \in DOMAIN locals.results[k].contents.quantity_measured,
                field \in {"description", "unit"} :
                LET entry == locals.results[k].contents.quantity_measured[qty_id]
                IN  locals' =
                       [locals EXCEPT
                           !.assignments = @ + 1,
                           !.assigned = @ \cup {k},
                           !.TableA3 =
                               IF entry.object = "TableA3"
                               THEN [@ EXCEPT ![entry.key][field] = "changed"]
                               ELSE @,
                           !.results =
                               IF entry.object = "TableA3" THEN @
                               ELSE [@ EXCEPT ![k].contents.quantity_measured[qty_id]
                                                 .value[field] = "changed"]]
    /\ UNCHANGED <<txt_data, args, pc, ret>>

\* result['quantity_measured'][qty_id] = {'description': 'changed', 'unit':
\* 'changed'}: the dictionary of the result gets a new entry
AssignEntry ==
    /\ pc = "caller"
    /\ locals.assignments < MaxAssignments
    /\ \E k \in 1..Len(locals.results) :
          /\ locals.results[k].raised = "none"
          /\ \E qty_id \in DOMAIN locals.results[k].contents.quantity_measured :
                locals' =
                   [locals EXCEPT
                       !.assignments = @ + 1,
                       !.assigned = @ \cup {k},
                       !.results[k].contents.quantity_measured[qty_id] =
                           [object |-> "own",
                            value |-> [description |-> "changed", unit |-> "changed"]]]
    /\ UNCHANGED <<txt_data, args, pc, ret>>

Next0001 == Call0001 \/ AssignField \/ AssignEntry

Spec0001 == Init0001 /\ [][Next0001]_vars

(***************************************************************************)
(* Properties of parse_logical_record_0001 over the callers of Spec0001.   *)
(***************************************************************************)
\* what the caller reads in entry qty_id of result k
EntryRead(k, qty_id) ==
    LET entry == locals.results[k].contents.quantity_measured[qty_id]
    IN  IF entry.object = "TableA3" THEN locals.TableA3[entry.key] ELSE entry.value

\* result k reads as the record decoded from the lines with the table of
\* the source
ReadsAsDecoded(k) ==
    /\ locals.results[k].raised = "none"
    /\ \A qty_id \in DOMAIN locals.results[k].contents.quantity_measured :
          EntryRead(k, qty_id) = TableA3[qty_id]

\* C24: an assignment to the result of one call of
\* parse_logical_record_0001, for instance to an entry of quantity_measured,
\* changes neither the table of quantities nor the result of another call
\* on the same lines: the table stays as the source defines it, and every
\* result the caller has not assigned to reads as decoded.
C24_ResultsShareNoState ==
    /\ locals.TableA3 = TableA3
    /\ \A k \in 1..Len(locals.results) :
          (locals.results[k].raised = "none" /\ k \notin locals.assigned)
          => ReadsAsDecoded(k)

\* what holds instead: only the dictionaries contents and quantity_measured
\* are fresh.  Putting a new entry in quantity_measured leaves the table and
\* the other results alone
C24_AssignEntryIsLocal ==
    [][AssignEntry
       => /\ locals'.TableA3 = locals.TableA3
          /\ Cardinality({k \in 1..Len(locals.results) :
                              locals'.results[k] # locals.results[k]}) <= 1]_vars

\* the unit of quantity 2 was assigned to in the first result, and the
\* table and the second result, decoded afterwards, show the assigned unit
C24_AssignmentSeenInLaterCall ==
    /\ Len(locals.results) = 2
    /\ locals.assigned = {1}
    /\ locals.results[2].raised = "none"
    /\ 2 \in DOMAIN locals.results[2].contents.quantity_measured
    /\ locals.TableA3[2].unit = "changed"
    /\ EntryRead(2, 2).unit = "changed"
    /\ TableA3[2].unit = "Wm-2"

(***************************************************************************)
(* Specification of the horizon of parse_logical_record_0004: a station    *)
(* record with at most MaxHorizonLines lines of horizon, each of 11 pairs   *)
(* of azimuth and elevation.  The first two pairs of a line are whole,     *)
(* lack one member or lack both; the other nine lack both.                 *)
(***************************************************************************)
HorizonPairs == {<<10, 5>>, <<20, 0 - 1>>, <<0 - 1, 7>>, <<0 - 1, 0 - 1>>}

\* an integer right-aligned in a field of the given width
Field(n, width) ==
    LET text == IF n < 0 THEN <<"-">> \o Str(0 - n) ELSE Str(n)
    IN  Repeat(" ", width - Len(text)) \o text

\* the 11 pairs of a line whose first pairs are given
PairsOfLine(first) ==
    [i \in 1..11 |-> IF i <= Len(first) THEN first[i] ELSE <<0 - 1, 0 - 1>>]

HorizonLineOf(first) ==
    Flatten([i \in 1..11 |->
                <<" ">> \o Field(PairsOfLine(first)[i][1], 3)
                    \o <<" ">> \o Field(PairsOfLine(first)[i][2], 2)])

InitHorizon ==
    /\ args \in [horizon : SeqsUpTo([1..2 -> HorizonPairs], MaxHorizonLines)]
    /\ txt_data = StationLines([StationForms["known"] EXCEPT !.horizon = 0])
                     \o [i \in 1..Len(args.horizon) |-> HorizonLineOf(args.horizon[i])]
    /\ pc = "call"
    /\ locals = NoResult
    /\ ret = NoResult

SpecHorizon == InitHorizon /\ [][Call0004]_vars

(***************************************************************************)
(* Properties of the horizon over the records of SpecHorizon.              *)
(***************************************************************************)
\* the pairs of the file, line after line
FilePairs == Flatten([i \in 1..Len(args.horizon) |-> PairsOfLine(args.horizon[i])])

HorizonDecoded == pc = "return" /\ ret.raised = "none"

\* C25: the missing value -1 removes entries of the horizon pair by pair:
\* horizon_azimuth and horizon_elevation have the same length and, for
\* every k, the k-th azimuth and the k-th elevation are the two members of
\* one pair of the file, also when only one member of a pair is -1.
C25_HorizonPairsStayAligned ==
    HorizonDecoded
    => /\ Len(ret.contents.horizon_azimuth) = Len(ret.contents.horizon_elevation)
       /\ \A k \in 1..Len(ret.contents.horizon_azimuth) :
             k <= Len(ret.contents.horizon_elevation)
             => \E j \in 1..Len(FilePairs) :
                   FilePairs[j] = <<ret.contents.horizon_azimuth[k],
                                    ret.contents.horizon_elevation[k]>>

\* what holds instead: when every pair of the file is whole or lacks both
\* members, the two lists are the members of the whole pairs in the order
\* of the file
C25_WholePairsStayAligned ==
    (HorizonDecoded
     /\ \A j \in 1..Len(FilePairs) : (FilePairs[j][1] = 0 - 1) <=> (FilePairs[j][2] = 0 - 1))
    => LET whole == SelectSeq(FilePairs, LAMBDA p : p[1] # 0 - 1)
       IN  /\ ret.contents.horizon_azimuth = [k \in 1..Len(whole) |-> whole[k][1]]
           /\ ret.contents.horizon_elevation = [k \in 1..Len(whole) |-> whole[k][2]]

\* a line that holds the pairs (20, -1) and (10, 5): two azimuths, 20 and 5,
\* and one elevation, 10
C25_PairsShifted ==
    /\ HorizonDecoded
    /\ args.horizon = <<<<(<<20, 0 - 1>>), (<<10, 5>>)>>>>
    /\ ret.contents.horizon_azimuth = <<20, 5>>
    /\ ret.contents.horizon_elevation = <<10>>

(***************************************************************************)
(* Properties of the handler of the data loop over the files of SpecLoad.  *)
(***************************************************************************)
\* the error of the list of datetimes built from the decoded record
TimestampsError(lrcontents) ==
    UtcTimesError(args.year, args.month, lrcontents["day"], lrcontents["hour"],
                  lrcontents["minute"], 1)

\* the error raised inside the try block for a record: that of the decoder,
\* else that of the timestamps
ErrorInTry(parsed) ==
    IF parsed.raised # "none" THEN parsed.raised
    ELSE TimestampsError(Kept(parsed.contents))

\* the pass over record 0100 left load_data with an error
PrimaryRaised ==
    /\ pc = "return"
    /\ ret.raised # "none"
    /\ ret.lrid = LR0100

\* C26: whenever decoding record 0100 raises inside load_data, in the
\* decoder or while the timestamps are built, the error that reaches the
\* caller is that error, not another one raised by the handler.
C26_HandlerReraisesTheOriginalError ==
    PrimaryRaised
    => ret.raised = ErrorInTry(data_parsers(LR0100,
                                   RecordSlice(txt_data, locals.logical_records[LR0100]),
                                   args.nan_as_int))

\* what holds instead: an error of the timestamps, raised once the decoder
\* has returned, reaches the caller as it is
C26_TimestampErrorsAreReraised ==
    (PrimaryRaised /\ locals.hour # None)
    => ret.raised = ErrorInTry(data_parsers(LR0100,
                                   RecordSlice(txt_data, locals.logical_records[LR0100]),
                                   args.nan_as_int))

\* the decoder raised ValueError on a record without a valid pair of lines
\* and the caller gets UnboundLocalError
C26_HandlerRaisesAnotherError ==
    /\ PrimaryRaised
    /\ locals.hour = None
    /\ data_parsers(LR0100, RecordSlice(txt_data, locals.logical_records[LR0100]),
                    args.nan_as_int).raised = "ValueError"
    /\ ret.raised = "UnboundLocalError"

(***************************************************************************)
(* Properties of the pairing of lines in parse_logical_record_0100 over    *)
(* the records of SpecData.                                                *)
(***************************************************************************)
TokensAt(p) == Len(Split(txt_data[p]))

\* the line at position p of the span has 10 tokens and the next one 11
WellFormedPairAt(p) ==
    /\ p \in 2..(Len(txt_data) - 1)
    /\ TokensAt(p) = 10
    /\ TokensAt(p + 1) = 11

\* a row of the output was read from the lines at p and p + 1: every token
\* of a line but its first is the position of the line
PairRetained(p) ==
    \E k \in 1..Len(ret.contents["direct_normal"]) :
        /\ ret.contents["direct_normal"][k] = Some(10 * (p - 1))
        /\ ret.contents["downward_longwave"][k] = Some(10 * p)

Decoded0100 == pc = "return" /\ args.lrid = LR0100 /\ ret.raised = "none"

\* C27: in parse_logical_record_0100 every line of 10 tokens that is
\* immediately followed by a line of 11 tokens is retained in the output,
\* whatever the token counts of the lines before it.
C27_WellFormedPairsAreRetained ==
    Decoded0100 => \A p \in 2..(Len(txt_data) - 1) : WellFormedPairAt(p) => PairRetained(p)

\* what holds instead: such a pair is retained when the line before it does
\* not have 10 tokens; after a line of 10 tokens the cursor may stand past
\* the first line of the pair
C27_PairsAfterOtherLinesAreRetained ==
    Decoded0100
    => \A p \in 2..(Len(txt_data) - 1) :
          (WellFormedPairAt(p) /\ TokensAt(p - 1) # 10) => PairRetained(p)

\* a sample without its second line, then two well-formed samples: the
\* first of the two is lost with it
C27_SampleLostAfterLoneLine ==
    /\ Decoded0100
    /\ args.samples = <<"lone", "good", "good">>
    /\ WellFormedPairAt(3)
    /\ ~PairRetained(3)
    /\ PairRetained(5)

(***************************************************************************)
(* BSRNMetadata.get: the cache of metadata by period.  self.metadata is a  *)
(* dictionary from the period, a string, to the entry of the period, a     *)
(* dictionary that is empty when the load failed.  What load_data does for *)
(* the period is an input of the call: it raises, returns None, or returns *)
(* the table, the metadata and the logical records.                        *)
(***************************************************************************)
\* f'{year}{month:02d}'
Period(year, month) ==
    Str(year) \o (IF month < 10 THEN <<"0">> \o Str(month) ELSE Str(month))

\* a faulty variant: force_reload reloads whatever the entry holds
do_reload_whenever_forced(metadata, period, force_reload) ==
    IF period \notin DOMAIN metadata THEN TRUE ELSE force_reload

\* do_reload = True if period not in self.metadata else
\* (not self.metadata[period] and force_reload)
do_reload(metadata, period, force_reload) ==
    IF period \notin DOMAIN metadata THEN TRUE
    ELSE DOMAIN metadata[period] = {} /\ force_reload

\* the availability of the variables of the logical records: the valid
\* samples over the samples, kept as the two counts
data_availability(logrec) ==
    [lrid \in DOMAIN logrec |->
        [key \in DOMAIN logrec[lrid] \ {"utc_times"} |->
            IF key = "description" THEN logrec[lrid]["description"]
            ELSE [n_valid_samples |->
                      Cardinality({k \in 1..Len(logrec[lrid][key]) :
                                      logrec[lrid][key][k] # nan}),
                  n_samples |-> Len(logrec[lrid]["utc_times"])]]]

\* the entry made of the metadata that load_data returned: the labels of
\* the surface and of the topography, the unknown codes as they are, and the
\* availability
EntryOf(metadata, logrec) ==
    LET named == [key \in {IF k = "topograpy_type" THEN "topography_type" ELSE k :
                              k \in DOMAIN metadata} |->
                     IF key = "topography_type" /\ "topograpy_type" \in DOMAIN metadata
                     THEN metadata["topograpy_type"]
                     ELSE metadata[key]]
    IN  [key \in DOMAIN named \cup {"data_availability"} |->
            CASE key = "data_availability" -> [availability |-> data_availability(logrec)]
              [] key = "surface_type" ->
                    IF named[key] \in DOMAIN TableA4
                    THEN [label |-> TableA4[named[key]]] ELSE [code |-> named[key]]
              [] key = "topography_type" ->
                    IF named[key] \in DOMAIN TableA5
                    THEN [label |-> TableA5[named[key]]] ELSE [code |-> named[key]]
              [] OTHER -> named[key]]

\* the try statement around load_bsrn_data: unpacking None raises TypeError,
\* which the clause except Exception catches like the errors of the loader
Reloaded(outcome) ==
    IF outcome.raised # "none" \/ outcome.value = None THEN <<>>
    ELSE EntryOf(outcome.value[1].metadata, outcome.value[1].logrec)

\* self.metadata after get, the entry of the period reloaded or not
GetMetadata(metadata, period, reload, outcome) ==
    IF reload THEN (period :> Reloaded(outcome)) @@ metadata ELSE metadata

(***************************************************************************)
(* Specification of BSRNMetadata.get: at most MaxGetCalls calls on an      *)
(* object whose cache, read from the file of the site, is empty or holds   *)
(* an entry, over two periods, with and without force_reload.              *)
(***************************************************************************)
MaxGetCalls == 3

GetMonths == {2, 11}

LoaderOutcomes ==
    {[raised |-> "Exception"],
     [raised |-> "none", value |-> None],
     [raised |-> "none",
      value |-> Some([metadata |-> [surface_type |-> 21, topograpy_type |-> 9],
                      logrec |-> (LR0100 :> [description |-> "basic measurements",
                                             utc_times |-> <<1, 2>>,
                                             ghi |-> <<Some(10), nan>>])])],
     [raised |-> "none", value |-> Some([metadata |-> <<>>, logrec |-> <<>>])]}

\* json.load of the file of the site, or no file
CachesOnFile ==
    {<<>>,
     Period(LoadYear, 2) :> <<>>,
     Period(LoadYear, 2) :> EntryOf(<<>>, <<>>)}

InitGet ==
    /\ txt_data = <<>>
    /\ args \in [metadata : CachesOnFile]
    /\ pc = "caller"
    /\ locals = [metadata |-> args.metadata, ncalls |-> 0, loaded |-> FALSE,
                 last |-> NoResult]
    /\ ret = NoResult

\* get(year, month, force_reload): locals.loaded tells whether the call
\* invoked load_bsrn_data, locals.last is the call
Get ==
    /\ pc = "caller"
    /\ locals.ncalls < MaxGetCalls
    /\ \E month \in GetMonths, force_reload \in BOOLEAN, outcome \in LoaderOutcomes :
          LET period == Period(LoadYear, month)
              reload == do_reload(locals.metadata, period, force_reload)
          IN  /\ locals' = [metadata |->
                               GetMetadata(locals.metadata, period, reload, outcome),
                            ncalls |-> locals.ncalls + 1,
                            loaded |-> reload,
                            last |-> [period |-> period, force_reload |-> force_reload,
                                      failed |-> Reloaded(outcome) = <<>>]]
              /\ ret' = GetMetadata(locals.metadata, period, reload, outcome)[period]
    /\ UNCHANGED <<txt_data, args, pc>>

SpecGet == InitGet /\ [][Get]_vars

(***************************************************************************)
(* Properties of BSRNMetadata.get over the calls of SpecGet.               *)
(***************************************************************************)
IsEmptyEntry(entry) == DOMAIN entry = {}

\* C28: over any sequence of calls of get, the loader is invoked exactly
\* when the period is not cached, or its cached entry is empty and
\* force_reload is true; a loader failure stores and returns an empty
\* entry; a call that does not load returns the cached entry and leaves the
\* cache as it is; a non-empty cached entry is never changed, also with
\* force_reload; the cache holds one entry per period asked for, and no
\* call changes the entry of another period.
C28_CacheIsLoadedOncePerPeriod ==
    [][locals'.ncalls = locals.ncalls + 1
       => LET period == locals'.last.period
              cached == period \in DOMAIN locals.metadata
          IN  /\ locals'.loaded
                    <=> (~cached \/ (IsEmptyEntry(locals.metadata[period])
                                     /\ locals'.last.force_reload))
              /\ (locals'.loaded /\ locals'.last.failed)
                    => (IsEmptyEntry(locals'.metadata[period]) /\ IsEmptyEntry(ret'))
              /\ ~locals'.loaded
                    => (ret' = locals.metadata[period]
                        /\ locals'.metadata = locals.metadata)
              /\ DOMAIN locals'.metadata = DOMAIN locals.metadata \cup {period}
              /\ ret' = locals'.metadata[period]
              /\ \A p \in DOMAIN locals.metadata :
                    (p # period \/ ~IsEmptyEntry(locals.metadata[p]))
                    => locals'.metadata[p] = locals.metadata[p]]_vars

\* a third call, with force_reload, on a period whose entry is not empty:
\* the loader was not invoked and the entry is returned
C28_Witness ==
    /\ locals.ncalls = 3
    /\ locals.last.force_reload
    /\ ~locals.loaded
    /\ ~IsEmptyEntry(ret)
    /\ ret = locals.metadata[locals.last.period]
    /\ Cardinality(DOMAIN locals.metadata) = 2

(***************************************************************************)
(* update_list_of_remote_files and update_site_metadata_from_bsrn_web_site:*)
(* the refresh of a local file from its remote source.  The file is absent *)
(* or bears a modification time; times are in seconds.  What the remote    *)
(* source does is an input: it answers, or the request fails.              *)
(***************************************************************************)
MAX_ELAPSED_DAYS_FROM_LAST_UPDATE == 10

\* elapsed_time_secs = os.path.getmtime(out_fn) - time.time()
elapsed_time_secs(mtime, now) == mtime - now

\* elapsed_time_days < MAX_ELAPSED_DAYS_FROM_LAST_UPDATE, where
\* elapsed_time_days = elapsed_time_secs / (3600. * 24.)
WithinMaxElapsedDays(secs) == secs < MAX_ELAPSED_DAYS_FROM_LAST_UPDATE * (3600 * 24)

\* if out_fn.exists() and (force is False): ... return
ReturnsEarly(file, force, now) ==
    /\ file # None
    /\ ~force
    /\ WithinMaxElapsedDays(elapsed_time_secs(file[1], now))

\* the function from the test on: the file is left, or it is written anew,
\* or the request raises error and the file is left
Refreshed(file, force, now, remote, error) ==
    IF ReturnsEarly(file, force, now)
    THEN [raised |-> "none", requested |-> FALSE, file |-> file]
    ELSE IF remote = "answers"
    THEN [raised |-> "none", requested |-> TRUE, file |-> Some(now)]
    ELSE [raised |-> error, requested |-> TRUE, file |-> file]

(***************************************************************************)
(* Specification of the two updates: one call on a local file that is      *)
(* absent, or was modified some time before or after the time of the call. *)
(***************************************************************************)
\* the seconds from the modification of the file to the call: none, an
\* hour, a second less than ten days, ten days, a second more, eleven days,
\* a hundred days, and modifications ten and eleven days after the call
UpdateAges ==
    {0, 3600, 863999, 864000, 864001, 950400, 8640000, 0 - 864000, 0 - 950400}

InitUpdate ==
    /\ txt_data = <<>>
    /\ args \in [function : {"update_list_of_remote_files",
                             "update_site_metadata_from_bsrn_web_site"},
                 now : {2000000000},
                 file : {None} \cup {Some(2000000000 - age) : age \in UpdateAges},
                 force : BOOLEAN, remote : {"answers", "fails"}]
    /\ pc = "call"
    /\ locals = [file |-> args.file]
    /\ ret = NoResult

update_list_of_remote_files ==
    /\ pc = "call"
    /\ args.function = "update_list_of_remote_files"
    /\ ret' = Refreshed(locals.file, args.force, args.now, args.remote,
                        "BSRNDownloadError")
    /\ locals' = [file |-> Refreshed(locals.file, args.force, args.now, args.remote,
                                     "BSRNDownloadError").file]
    /\ pc' = "return"
    /\ UNCHANGED <<txt_data, args>>

update_site_metadata_from_bsrn_web_site ==
    /\ pc = "call"
    /\ args.function = "update_site_metadata_from_bsrn_web_site"
    /\ ret' = Refreshed(locals.file, args.force, args.now, args.remote,
                        "ConnectionError")
    /\ locals' = [file |-> Refreshed(locals.file, args.force, args.now, args.remote,
                                     "ConnectionError").file]
    /\ pc' = "return"
    /\ UNCHANGED <<txt_data, args>>

NextUpdate == update_list_of_remote_files \/ update_site_metadata_from_bsrn_web_site

SpecUpdate == InitUpdate /\ [][NextUpdate]_vars

(***************************************************************************)
(* Properties of the two updates over the calls of SpecUpdate.             *)
(***************************************************************************)
\* the call was made with force=False on an existing file
UnforcedOnExistingFile == pc = "return" /\ args.file # None /\ ~args.force

\* the seconds from the modification of the file to the call
AgeOfFile == args.now - args.file[1]

\* C29: called with force=False on an existing local file, either update
\* skips the refresh exactly when the file was modified less than 10 days
\* before the call: a file older than 10 days is requested again from the
\* remote source.
C29_RefreshesFilesOlderThanTenDays ==
    UnforcedOnExistingFile
    => (ret.requested <=> ~(AgeOfFile < MAX_ELAPSED_DAYS_FROM_LAST_UPDATE * (3600 * 24)))

\* what holds instead: the elapsed time is the modification time minus the
\* time of the call, which is not positive for a file modified in the past,
\* so the refresh is skipped for every such file; only a file modified ten
\* days or more after the call is requested again
C29_RefreshesOnlyFilesFromTheFuture ==
    UnforcedOnExistingFile
    => (ret.requested <=> AgeOfFile <= 0 - MAX_ELAPSED_DAYS_FROM_LAST_UPDATE * (3600 * 24))

\* a file modified eleven days before the call is left as it is
C29_OldFileIsNotRefreshed ==
    /\ UnforcedOnExistingFile
    /\ AgeOfFile = 11 * (3600 * 24)
    /\ ~ret.requested
    /\ locals.file = args.file

(***************************************************************************)
(* The loops of find_logical_record_bounds and of the decoders of records  *)
(* 0008, 0009, 0100, 0300 and 1100, one iteration at a time: locals holds the    *)
(* cursor of the loop and what the loop has gathered, and pc names the     *)
(* loop that runs.  The lines are read once: locals.values has, for every  *)
(* line, what the loop reads when its cursor is there.                     *)
(***************************************************************************)
\* a faulty variant: the cursor is left where it is
Stay(nline) == nline

\* nline += 1
Advance(nline) == nline + 1

\* one iteration of the while loop of parse_logical_record_0100: the cursor
\* moves to the first line, and to the second one when the first has 10
\* tokens; a line with another number of tokens is logged and dropped
Iteration0100(st) ==
    LET first == Advance(st.nline)
        second == Advance(Advance(st.nline))
    IN  IF Len(st.values[first + 1]) # 10
        THEN [raised |-> "none", st |-> [st EXCEPT !.nline = first]]
        ELSE IF second > Len(st.values) - 1 THEN [raised |-> "IndexError"]
        ELSE IF Len(st.values[second + 1]) # 11
        THEN [raised |-> "none", st |-> [st EXCEPT !.nline = second]]
        ELSE [raised |-> "none",
              st |-> [st EXCEPT
                         !.nline = second,
                         !.line_data_1 = Append(@, st.values[first + 1]),
                         !.line_data_2 = Append(@, st.values[second + 1])]]

\* one iteration of the while loop of parse_logical_record_0300 and _1100
IterationSingle(st, ntokens) ==
    [st EXCEPT !.nline = Advance(@),
               !.line_data = IF Len(st.values[Advance(st.nline) + 1]) # ntokens THEN @
                             ELSE Append(@, st.values[Advance(st.nline) + 1])]

\* one iteration of the while loop of parse_logical_record_0008: the ten
\* lines of an instrument
Iteration0008(st, read) ==
    IF read.raised # "none" THEN read
    ELSE [raised |-> "none",
          st |-> [st EXCEPT
                     !.nline = @ + 10,
                     !.n_instrument = @ + 1,
                     !.contents = (radinstr_key(read.radinstr, st.n_instrument)
                                      :> read.radinstr) @@ @]]

Pattern0009 ==
    <<Sp, Grp(2), Sp, Grp(2), Sp, Grp(2), Sp, Grp(9), Sp, Grp(5), Sp, Grp(2)>>

\* one iteration of the while loop of parse_logical_record_0009: the line
\* is parsed, which may raise, and the cursor moves on
Iteration0009(st, m) ==
    IF m.raised # "none" THEN m
    ELSE [raised |-> "none",
          st |-> [st EXCEPT
                     !.nline = Advance(@),
                     !.measurements =
                         Append(@, [day |-> m.value[1], hour |-> m.value[2],
                                    minute |-> m.value[3], id_qty |-> m.value[4],
                                    id_instr |-> m.value[5],
                                    spctr_band |-> m.value[6]])]]

\* one iteration of the loop over enumerate(txt_data)
IterationMarkers(lines, st) ==
    [st EXCEPT !.n = @ + 1,
               !.list = IF IsMarker(lines[st.n + 1])
                        THEN Append(@, [stamp |-> Strip(lines[st.n + 1]), n |-> st.n])
                        ELSE @]

\* one iteration of the loop over logical_records_list; ids is the order in
\* which the dictionary got its keys
IterationLimits(st) ==
    [st EXCEPT !.i = @ + 1,
               !.limits = KeepFirst(@, st.list[st.i + 1]),
               !.ids = IF RecordId(st.list[st.i + 1].stamp) \in DOMAIN st.limits THEN @
                       ELSE Append(@, RecordId(st.list[st.i + 1].stamp))]

\* one iteration of the while loop that looks for the id in the list, or,
\* once it is found, the end of the pass of the for loop over the ids
IterationBounds(lines, st) ==
    IF st.k > Len(st.list) - 1 THEN [raised |-> "IndexError"]
    ELSE IF RecordId(st.list[st.k + 1].stamp) # st.ids[st.j + 1]
    THEN [raised |-> "none", st |-> [st EXCEPT !.k = @ + 1]]
    ELSE [raised |-> "none",
          st |-> [st EXCEPT
                     !.j = @ + 1,
                     !.k = 0,
                     !.limits = [@ EXCEPT ![st.ids[st.j + 1]] =
                                    [header |-> @.header, has_changed |-> @.has_changed,
                                     first_line |-> @.first_line,
                                     last_line |-> ClosingLine(st.list, st.k, Len(lines))]]]]

(***************************************************************************)
(* Specification of the loops: the scanner on files of at most             *)
(* MaxLoopLines lines, the data decoders on records of at most             *)
(* MaxLoopSamples samples of every form, the decoder of record 0009 on at  *)
(* most MaxLoopSamples lines, the decoder of record 0008 on at most        *)
(* MaxLoopBlocks blocks.  A running program takes its next step:   *)
(* the steps are weakly fair.                                              *)
(***************************************************************************)
MaxLoopLines == 3

MaxLoopSamples == 2

MaxLoopBlocks == 1

\* [parse_float(e) for e in line.split()] of every line
Values(lines) == [n \in 1..Len(lines) |-> LineValues(lines[n])]

\* the ten lines of an instrument read from every line
Reads(txt) == [n \in 1..Len(txt) |-> ReadInstrument(txt, n - 1, 0, <<>>)]

\* the parse of every line of record 0009
Parses0009(txt) == [n \in 1..Len(txt) |-> parse(txt[n], Pattern0009, "int", Some(0 - 1))]

LR0009 == <<"0", "0", "0", "9">>

\* a line of record 0009: well formed, too short for the pattern, or with
\* a field that is not an integer
Line0009(form) ==
    CASE form = "good" ->
            <<" ", "0", "1", " ", "-", "1", " ", "-", "1", " ">>
                \o Pad(<<"2", "1">>, 9) \o <<" ">> \o Pad(<<"5">>, 5) \o <<" ", "-", "1">>
      [] form = "short" -> <<" ", "0", "1", " ", "-", "1">>
      [] form = "text" ->
            <<" ", "0", "1", " ", "-", "1", " ", "-", "1", " ">>
                \o Pad(<<"x">>, 9) \o <<" ">> \o Pad(<<"5">>, 5) \o <<" ", "-", "1">>

InitLoops ==
    /\ \/ /\ args = [loop |-> "markers"]
          /\ txt_data \in SeqsUpTo(ScanLines, MaxLoopLines)
          /\ locals = [n |-> 0, list |-> <<>>]
       \/ /\ args \in [loop : {"0100"}, nan_as_int : NanCastOutcomes,
                       samples : SeqsUpTo(FormsOf(LR0100), MaxLoopSamples)]
          /\ txt_data = RecordLines(LR0100, args.samples)
          /\ locals = [nline |-> 0, line_data_1 |-> <<>>, line_data_2 |-> <<>>,
                       values |-> Values(txt_data)]
       \/ /\ args \in [loop : {"0300"}, nan_as_int : NanCastOutcomes,
                       samples : SeqsUpTo(FormsOf(LR0300), MaxLoopSamples)]
          /\ txt_data = RecordLines(LR0300, args.samples)
          /\ locals = [nline |-> 0, line_data |-> <<>>, values |-> Values(txt_data)]
       \/ /\ args \in [loop : {"1100"}, nan_as_int : NanCastOutcomes,
                       samples : SeqsUpTo(FormsOf(LR1100), MaxLoopSamples)]
          /\ txt_data = RecordLines(LR1100, args.samples)
          /\ locals = [nline |-> 0, line_data |-> <<>>, values |-> Values(txt_data)]
       \/ /\ args \in [loop : {"0009"},
                       lines : SeqsUpTo({"good", "short", "text"}, MaxLoopSamples)]
          /\ txt_data = <<MarkerLine("U", LR0009)>>
                           \o [i \in 1..Len(args.lines) |-> Line0009(args.lines[i])]
          /\ locals = [nline |-> 1, measurements |-> <<>>, values |-> Parses0009(txt_data)]
       \/ /\ args \in [loop : {"0008"}, blocks : SeqsUpTo(InstrumentBlocks, MaxLoopBlocks)]
          /\ txt_data = <<MarkerLine("U", LR0008)>>
                           \o Flatten([i \in 1..Len(args.blocks) |->
                                          BlockLines(args.blocks[i])])
          /\ locals = [nline |-> 1, n_instrument |-> 1, contents |-> <<>>,
                       values |-> Reads(txt_data)]
    /\ pc = args.loop
    /\ ret = NoResult

\* the loop runs on with the state st, or error leaves the decoder
RunsOn(pass) ==
    IF pass.raised = "none"
    THEN locals' = pass.st /\ UNCHANGED <<pc, ret>>
    ELSE pc' = "return" /\ ret' = pass /\ UNCHANGED locals

Step0100 ==
    /\ pc = "0100"
    /\ IF locals.nline < Len(txt_data) - 1
       THEN RunsOn(Iteration0100(locals))
       ELSE /\ pc' = "return"
            /\ ret' = [raised |-> "none", line_data_1 |-> locals.line_data_1,
                        line_data_2 |-> locals.line_data_2]
            /\ UNCHANGED locals
    /\ UNCHANGED <<txt_data, args>>

Step0300 ==
    /\ pc = "0300"
    /\ IF locals.nline < Len(txt_data) - 1
       THEN locals' = IterationSingle(locals, 14) /\ UNCHANGED <<pc, ret>>
       ELSE /\ pc' = "return"
            /\ ret' = [raised |-> "none", line_data |-> locals.line_data]
            /\ UNCHANGED locals
    /\ UNCHANGED <<txt_data, args>>

Step1100 ==
    /\ pc = "1100"
    /\ IF locals.nline < Len(txt_data) - 1
       THEN locals' = IterationSingle(locals, 10) /\ UNCHANGED <<pc, ret>>
       ELSE /\ pc' = "return"
            /\ ret' = [raised |-> "none", line_data |-> locals.line_data]
            /\ UNCHANGED locals
    /\ UNCHANGED <<txt_data, args>>

Step0008 ==
    /\ pc = "0008"
    /\ IF locals.nline < Len(txt_data)
       THEN RunsOn(Iteration0008(locals, locals.values[locals.nline + 1]))
       ELSE /\ pc' = "return"
            /\ ret' = [raised |-> "none", contents |-> locals.contents]
            /\ UNCHANGED locals
    /\ UNCHANGED <<txt_data, args>>

Step0009 ==
    /\ pc = "0009"
    /\ IF locals.nline < Len(txt_data)
       THEN RunsOn(Iteration0009(locals, locals.values[locals.nline + 1]))
       ELSE /\ pc' = "return"
            /\ ret' = [raised |-> "none",
                        contents |-> [measurements |-> locals.measurements]]
            /\ UNCHANGED locals
    /\ UNCHANGED <<txt_data, args>>

StepMarkers ==
    /\ pc = "markers"
    /\ IF locals.n < Len(txt_data)
       THEN locals' = IterationMarkers(txt_data, locals) /\ pc' = pc
       ELSE /\ locals' = [i |-> 0, list |-> locals.list, limits |-> <<>>, ids |-> <<>>]
            /\ pc' = "limits"
    /\ UNCHANGED <<txt_data, args, ret>>

StepLimits ==
    /\ pc = "limits"
    /\ IF locals.i < Len(locals.list)
       THEN locals' = IterationLimits(locals) /\ pc' = pc
       ELSE /\ locals' = [j |-> 0, k |-> 0, list |-> locals.list,
                          limits |-> locals.limits, ids |-> locals.ids]
            /\ pc' = "bounds"
    /\ UNCHANGED <<txt_data, args, ret>>

StepBounds ==
    /\ pc = "bounds"
    /\ IF locals.j < Len(locals.ids)
       THEN RunsOn(IterationBounds(txt_data, locals))
       ELSE /\ pc' = "return"
            /\ ret' = [raised |-> "none", limits |-> locals.limits]
            /\ UNCHANGED locals
    /\ UNCHANGED <<txt_data, args>>

NextLoops ==
    \/ StepMarkers
    \/ StepLimits
    \/ StepBounds
    \/ Step0008
    \/ Step0009
    \/ Step0100
    \/ Step0300
    \/ Step1100

SpecLoops == InitLoops /\ [][NextLoops]_vars /\ WF_vars(NextLoops)

(***************************************************************************)
(* Properties of the loops over the runs of SpecLoops.                     *)
(***************************************************************************)
\* the cursor of the loop that runs; in the search of the scanner, the pass
\* of the for loop and, within the pass, the index of the while loop
Cursor(p, st) ==
    CASE p = "markers" -> st.n
      [] p = "limits" -> st.i
      [] p = "bounds" -> st.j * (Len(st.list) + 1) + st.k
      [] OTHER -> st.nline

\* what the step-by-step run returns is what the decoder returns
SameAsDecoder ==
    CASE args.loop = "markers" ->
            ret.raised = "none" /\ ret.limits = find_logical_record_bounds(txt_data)
      [] args.loop = "0008" -> ret = parse_logical_record_0008(txt_data)
      [] args.loop = "0009" ->
            IF \A i \in 1..Len(args.lines) : args.lines[i] = "good"
            THEN /\ ret.raised = "none"
                 /\ Len(ret.contents.measurements) = Len(txt_data) - 1
            ELSE ret.raised \in {"BSRNParsingError", "ValueError"}
      [] args.loop = "0100" -> ret = Loop0100(txt_data, 0, <<>>, <<>>)
      [] args.loop = "0300" -> ret.line_data = LoopSingle(txt_data, 0, 14, <<>>)
      [] args.loop = "1100" -> ret.line_data = LoopSingle(txt_data, 0, 10, <<>>)

\* C30: on every sequence of lines find_logical_record_bounds and the
\* decoders of records 0008, 0009, 0100, 0300 and 1100 terminate, returning a
\* result or raising: in every iteration of a loop the cursor strictly
\* increases, also in the iterations that drop a malformed line, and every
\* run reaches the return, with the result of the decoder.
C30_LoopsAdvanceAndTerminate ==
    /\ [][(pc' = pc /\ pc # "return") => Cursor(pc, locals') > Cursor(pc, locals)]_vars
    /\ [](pc = "return" => SameAsDecoder)
    /\ <>(pc = "return")

\* record 0100 with a sample of 9 and 11 tokens and a well-formed one: two
\* iterations dropped a line, the third kept the pair, the cursor is at the
\* last line and the decoder has returned
C30_Witness ==
    /\ pc = "return"
    /\ args.loop = "0100"
    /\ args.samples = <<"short1", "good">>
    /\ locals.nline = 4
    /\ Len(locals.line_data_1) = 1
    /\ ret.raised = "none"

====
